---- MODULE Spec2Model ----
(***************************************************************************)
(* A model of cvxpy_or/sets.py: the ordered index Set, Set.cross, sum_by,  *)
(* where and Parameter.expand / set_data.                                  *)
(*                                                                         *)
(* Python values are tagged records, so that values of different Python    *)
(* types are never equal and can live in one collection:                   *)
(*   [s |-> "a"]        a str            [i |-> 0]      an int             *)
(*   [t |-> <<v, w>>]   a tuple          [none |-> TRUE] None              *)
(*   [f |-> <<1, 0>>]   a 1-D numeric array (floats are modelled by        *)
(*                      integers: 1.0 is 1)                                *)
(*   [b |-> <<TRUE>>]   a 1-D array (or list) of bools                     *)
(*   [fn |-> "always"]  a callable, named                                  *)
(* Python sequences are 0-based; TLA+ sequences are 1-based: offset k of   *)
(* a Python list is element k + 1 of the sequence that models it.          *)
(***************************************************************************)
EXTENDS Integers, Sequences, FiniteSets, TLC

VARIABLES
    sets,     \* the Set objects the program holds, in construction order
    params,   \* the Parameter objects the program holds
    ret       \* the last call: its name, its arguments and what it returned or raised

vars == <<sets, params, ret>>

-----------------------------------------------------------------------------
(* Bounds of the model *)

MaxLen == 3          \* longest list of elements given to Set(...)
MaxOperandLen == 2   \* longest list of elements of a Set that is crossed or expanded
MaxOperands == 3     \* most operands given to Set.cross

-----------------------------------------------------------------------------
(* Python values *)

PyStr(x) == [s |-> x]
PyInt(n) == [i |-> n]
PyTuple(q) == [t |-> q]
PyList(q) == [l |-> q]
PyNone == [none |-> TRUE]

IsStr(v) == DOMAIN v = {"s"}
IsInt(v) == DOMAIN v = {"i"}
IsTuple(v) == DOMAIN v = {"t"}
IsList(v) == DOMAIN v = {"l"}
IsNone(v) == DOMAIN v = {"none"}

Range(q) == {q[k] : k \in 1..Len(q)}

\* the elements of a list in order, each at its last occurrence only
RECURSIVE Distinct(_)
Distinct(q) ==
    IF q = <<>> THEN <<>>
    ELSE IF Head(q) \in Range(Tail(q)) THEN Distinct(Tail(q))
         ELSE <<Head(q)>> \o Distinct(Tail(q))

\* bool(v) of a str, a tuple or None
Truthy(v) ==
    IF IsNone(v) THEN FALSE
    ELSE IF IsTuple(v) THEN v.t # <<>>
    ELSE IF IsStr(v) THEN v.s # ""
    ELSE TRUE

\* len(v) of a tuple or of a str; the strs that are indexed are one character long
PyLen(v) == IF IsTuple(v) THEN Len(v.t) ELSE 1

\* v[p] raises: "IndexError", "TypeError", or "" when it raises nothing
SubscriptExc(v, p) ==
    IF ~(IsTuple(v) \/ IsStr(v)) THEN "TypeError"
    ELSE IF p >= PyLen(v) \/ p < -PyLen(v) THEN "IndexError"
    ELSE ""

\* v[p], for p an int: a negative p counts from the end
Subscript(v, p) ==
    LET k == IF p < 0 THEN p + PyLen(v) ELSE p
    IN  IF IsTuple(v) THEN v.t[k + 1] ELSE v

-----------------------------------------------------------------------------
(* class Set *)

\* {e: i for i, e in enumerate(q)}: a later occurrence overwrites an earlier one
EnumerateDict(q) ==
    [e \in Range(q) |->
        CHOOSE k \in 0..(Len(q) - 1) :
            /\ q[k + 1] = e
            /\ \A m \in 0..(Len(q) - 1) : q[m + 1] = e => m <= k]

\* self._pos
PosDict(elements) == EnumerateDict(elements)

\* name or f"Set_{id(self)}": id is the object's identity, here its place in sets
SetName(name, id) ==
    IF Truthy(name) THEN name ELSE PyStr("Set_" \o ToString(id))

IsCompound(elements) == Len(elements) > 0 /\ IsTuple(elements[1])

\* tuple(names) if names else None
SetNames(names) == IF Truthy(names) THEN names ELSE PyNone

\* Set.__init__ raises ValueError
SetInitRaises(elements, names) ==
    /\ Truthy(SetNames(names))
    /\ IsCompound(elements)
    /\ Len(SetNames(names).t) # Len(elements[1].t)

\* the object Set.__init__ leaves behind
SetInit(elements, name, names, id) ==
    [elements |-> elements,
     name |-> SetName(name, id),
     pos |-> PosDict(elements),
     is_compound |-> IsCompound(elements),
     names |-> SetNames(names)]

\* Set.__len__, Set.__contains__
SetLen(S) == Len(S.elements)
SetContains(S, elem) == elem \in DOMAIN S.pos

\* Set.position: the KeyError and the value
PositionRaises(S, elem) == elem \notin DOMAIN S.pos
Position(S, elem) == S.pos[elem]

\* Set._resolve_position: the KeyError and the value
ResolveRaises(S, key) ==
    /\ ~IsInt(key)
    /\ ~(Truthy(S.names) /\ key \in Range(S.names.t))
ResolvePosition(S, key) ==
    IF IsInt(key) THEN key.i
    ELSE (CHOOSE k \in 1..Len(S.names.t) :
            /\ S.names.t[k] = key
            /\ \A m \in 1..(k - 1) : S.names.t[m] # key) - 1

-----------------------------------------------------------------------------
(* Set.cross *)

\* [x + (y,) for y in pool]
ExtendEach(x, pool) == [k \in 1..Len(pool) |-> Append(x, pool[k])]

\* ExtendAll with its loops exchanged: [x + (y,) for y in pool for x in result]
ExtendAllPoolOutside(result, pool) ==
    [k \in 1..(Len(result) * Len(pool)) |->
        Append(result[((k - 1) % Len(result)) + 1], pool[((k - 1) \div Len(result)) + 1])]

\* [x + (y,) for x in result for y in pool]
RECURSIVE ExtendAll(_, _)
ExtendAll(result, pool) ==
    IF result = <<>> THEN <<>>
    ELSE ExtendEach(Head(result), pool) \o ExtendAll(Tail(result), pool)

\* itertools.product(*pools): result = [()], then one pass per pool
RECURSIVE ProductFrom(_, _)
ProductFrom(result, pools) ==
    IF pools = <<>> THEN result
    ELSE ProductFrom(ExtendAll(result, Head(pools)), Tail(pools))

ItertoolsProduct(pools) ==
    LET tuples == ProductFrom(<< <<>> >>, pools)
    IN  [k \in 1..Len(tuples) |-> PyTuple(tuples[k])]

CrossRaises(indices) == Len(indices) < 2

CrossElements(indices) ==
    ItertoolsProduct([k \in 1..Len(indices) |-> indices[k].elements])

\* the names cross hands to Set(...): the operands' names when none are given
CrossNames(indices, names) ==
    IF IsNone(names)
    THEN LET source_names == [k \in 1..Len(indices) |-> indices[k].name]
         IN  IF \A k \in 1..Len(source_names) : ~IsNone(source_names[k])
             THEN PyTuple(source_names)
             ELSE names
    ELSE names

-----------------------------------------------------------------------------
(* sum_by and _build_aggregation_matrix *)

RECURSIVE SumSeq(_)
SumSeq(q) == IF q = <<>> THEN 0 ELSE Head(q) + SumSeq(Tail(q))

\* positions = [positions] for an int or a str; a list is taken as it is
NormalizePositions(positions) ==
    IF IsInt(positions) \/ IsStr(positions) THEN <<positions>> ELSE positions.l

\* [index._resolve_position(p) for p in positions]: a KeyError, and the list
ResolveAllRaises(S, positions) ==
    \E k \in 1..Len(positions) : ResolveRaises(S, positions[k])
ResolveAll(S, positions) ==
    [k \in 1..Len(positions) |-> ResolvePosition(S, positions[k])]

\* get_key(elem) raises: the exception of the first subscript that raises, or ""
GetKeyExc(elem, pos_indices) ==
    IF \A k \in 1..Len(pos_indices) : SubscriptExc(elem, pos_indices[k]) = "" THEN ""
    ELSE SubscriptExc(elem, pos_indices[
            CHOOSE k \in 1..Len(pos_indices) :
                /\ SubscriptExc(elem, pos_indices[k]) # ""
                /\ \A m \in 1..(k - 1) : SubscriptExc(elem, pos_indices[m]) = ""])

\* get_key(elem): one position gives the component, several give the tuple of them
GetKey(elem, pos_indices) ==
    IF Len(pos_indices) = 1 THEN Subscript(elem, pos_indices[1])
    ELSE PyTuple([k \in 1..Len(pos_indices) |-> Subscript(elem, pos_indices[k])])

\* the exception of the first element whose key raises, or ""
RECURSIVE KeysExc(_, _)
KeysExc(elements, pos_indices) ==
    IF elements = <<>> THEN ""
    ELSE IF GetKeyExc(Head(elements), pos_indices) # ""
         THEN GetKeyExc(Head(elements), pos_indices)
         ELSE KeysExc(Tail(elements), pos_indices)

\* the loop that finds the unique keys: group_keys and seen grow together
RECURSIVE GroupKeysLoop(_, _, _, _)
GroupKeysLoop(elements, pos_indices, group_keys, seen) ==
    IF elements = <<>> THEN group_keys
    ELSE LET key == GetKey(Head(elements), pos_indices)
         IN  IF key \notin seen
             THEN GroupKeysLoop(Tail(elements), pos_indices,
                                Append(group_keys, key), seen \cup {key})
             ELSE GroupKeysLoop(Tail(elements), pos_indices, group_keys, seen)

\* GroupKeys collecting the keys in the order of their last occurrence
GroupKeysLastSeen(S, pos_indices) ==
    LET n == Len(S.elements)
        backwards == GroupKeysLoop([k \in 1..n |-> S.elements[n + 1 - k]],
                                   pos_indices, <<>>, {})
    IN  [k \in 1..Len(backwards) |-> backwards[Len(backwards) + 1 - k]]

\* GroupKeys putting each new key in front: the keys in the reverse of the order
\* of their first occurrence
GroupKeysNewestFirst(S, pos_indices) ==
    LET forwards == GroupKeysLoop(S.elements, pos_indices, <<>>, {})
    IN  [k \in 1..Len(forwards) |-> forwards[Len(forwards) + 1 - k]]

GroupKeys(S, pos_indices) == GroupKeysLoop(S.elements, pos_indices, <<>>, {})

\* key_to_row = {k: i for i, k in enumerate(group_keys)}
KeyToRow(group_keys) == EnumerateDict(group_keys)

\* Triples taking the column from index.position(elem) instead of enumerate
TriplesByPosition(S, pos_indices) ==
    LET key_to_row == KeyToRow(GroupKeys(S, pos_indices))
    IN  [j \in 1..Len(S.elements) |->
            [row |-> key_to_row[GetKey(S.elements[j], pos_indices)],
             col |-> Position(S, S.elements[j]),
             data |-> 1]]

\* the loop that fills rows, cols and data, one triple per element
Triples(S, pos_indices) ==
    LET key_to_row == KeyToRow(GroupKeys(S, pos_indices))
    IN  [j \in 1..Len(S.elements) |->
            [row |-> key_to_row[GetKey(S.elements[j], pos_indices)],
             col |-> j - 1,
             data |-> 1]]

\* sp.csr_matrix((data, (rows, cols)), shape=(n_groups, n_elements)): entries that
\* share a cell are added up. Row g, column j of the matrix is M[g + 1][j + 1].
CsrMatrix(triples, n_groups, n_elements) ==
    [g \in 1..n_groups |->
        [j \in 1..n_elements |->
            SumSeq([k \in 1..Len(triples) |->
                      IF triples[k].row = g - 1 /\ triples[k].col = j - 1
                      THEN triples[k].data ELSE 0])]]

BuildAggregationMatrix(S, pos_indices) ==
    CsrMatrix(Triples(S, pos_indices), Len(GroupKeys(S, pos_indices)), Len(S.elements))

\* M @ x of the expression engine, for x an expression whose value has a column per
\* column of M
MatVec(M, x) ==
    [g \in 1..Len(M) |-> SumSeq([j \in 1..Len(x) |-> M[g][j] * x[j]])]

\* what sum_by raises: <<exception, which>>, <<"", "">> for none
SumByExc(S, positions) ==
    IF ~S.is_compound THEN <<"ValueError", "not compound">>
    ELSE IF ResolveAllRaises(S, NormalizePositions(positions))
         THEN <<"KeyError", "position">>
    ELSE LET pos_indices == ResolveAll(S, NormalizePositions(positions))
         IN  IF KeysExc(S.elements, pos_indices) # ""
             THEN <<KeysExc(S.elements, pos_indices), "subscript">>
             ELSE <<"", "">>

-----------------------------------------------------------------------------
(* class Parameter. A Parameter is [index |-> the place of its Set in sets,  *)
(* value |-> None or a numeric array]. A dict is the list of its items,    *)
(* <<key, value>>, in insertion order, no key twice.                       *)

PyArray(q) == [f |-> q]
PyBools(q) == [b |-> q]
PyDict(items) == [d |-> items]
PyCallable(name) == [fn |-> name]
PySet(x) == [st |-> x]

IsArray(v) == DOMAIN v = {"f"}
IsBools(v) == DOMAIN v = {"b"}
IsCallable(v) == DOMAIN v = {"fn"}
IsSet(v) == DOMAIN v = {"st"}

Zeros(n) == [k \in 1..n |-> 0]
Ones(n) == [k \in 1..n |-> 1]

\* the loop of set_data raises KeyError: some key is not in the index
SetDataRaises(S, data) ==
    \E k \in 1..Len(data) : PositionRaises(S, data[k][1])

\* SetDataLoop writing the values in the order of the dict: values[i] = val for the
\* i-th item
SetDataLoopInOrder(S, data, values) ==
    [k \in 1..Len(values) |-> IF k <= Len(data) THEN data[k][2] ELSE values[k]]

\* the loop of set_data: values[pos] = val, item by item, on np.zeros(len(index))
RECURSIVE SetDataLoop(_, _, _)
SetDataLoop(S, data, values) ==
    IF data = <<>> THEN values
    ELSE SetDataLoop(S, Tail(data),
                     [values EXCEPT ![Position(S, Head(data)[1]) + 1] = Head(data)[2]])

SetData(S, data) == PyArray(SetDataLoop(S, data, Zeros(SetLen(S))))

\* Parameter.__init__(index, data): the object, for data that raises nothing
ParameterInit(id, data) ==
    [index |-> id,
     value |-> IF IsNone(data) THEN PyNone ELSE SetData(sets[id], data.d)]

\* the key expand looks up for a target element
ExpandKey(elem, pos_indices) ==
    IF Len(pos_indices) = 1 THEN Subscript(elem, pos_indices[1])
    ELSE PyTuple([k \in 1..Len(pos_indices) |-> Subscript(elem, pos_indices[k])])

\* what one pass of the loop of expand raises, <<exception, which>>: building the
\* key, then self._set_index.position(key), then self.value[src_pos]
ExpandStepExc(P, source, elem, pos_indices) ==
    IF GetKeyExc(elem, pos_indices) # ""
    THEN <<GetKeyExc(elem, pos_indices), "subscript">>
    ELSE IF PositionRaises(source, ExpandKey(elem, pos_indices))
    THEN <<"KeyError", "element">>
    ELSE IF IsNone(P.value) THEN <<"TypeError", "value">>
    ELSE <<"", "">>

\* the loop of expand raises what its first pass that raises does
RECURSIVE ExpandLoopExc(_, _, _, _)
ExpandLoopExc(P, source, elements, pos_indices) ==
    IF elements = <<>> THEN <<"", "">>
    ELSE IF ExpandStepExc(P, source, Head(elements), pos_indices)[1] # ""
         THEN ExpandStepExc(P, source, Head(elements), pos_indices)
         ELSE ExpandLoopExc(P, source, Tail(elements), pos_indices)

\* ExpandExc without the test of target_index._is_compound
ExpandExcAnyTarget(P, source, target, positions) ==
    IF ResolveAllRaises(target, positions) THEN <<"KeyError", "position">>
    ELSE ExpandLoopExc(P, source, target.elements, ResolveAll(target, positions))

\* what expand raises: <<exception, which>>, <<"", "">> for none
ExpandExc(P, source, target, positions) ==
    IF ~target.is_compound THEN <<"ValueError", "not compound">>
    ELSE IF ResolveAllRaises(target, positions) THEN <<"KeyError", "position">>
    ELSE ExpandLoopExc(P, source, target.elements, ResolveAll(target, positions))

\* ExpandValues with the key taken once, from the first target element
ExpandValuesOneKey(P, source, target, pos_indices) ==
    [k \in 1..Len(target.elements) |->
        P.value.f[Position(source, ExpandKey(target.elements[1], pos_indices)) + 1]]

\* result_values: entry i is self.value[position of the key of target element i]
ExpandValues(P, source, target, pos_indices) ==
    [k \in 1..Len(target.elements) |->
        P.value.f[Position(source, ExpandKey(target.elements[k], pos_indices)) + 1]]

-----------------------------------------------------------------------------
(* where and _build_where_mask. kwargs is the list of its items, <<name,    *)
(* allowed>>, in the order they were written, no name twice; index is the   *)
(* place of the Set in sets, 0 for None.                                    *)

\* cond(elem) for the callables of the model
Apply(cond, elem) ==
    IF cond.fn = "always" THEN TRUE
    ELSE IF cond.fn = "never" THEN FALSE
    ELSE IF cond.fn = "is_a" THEN elem = PyStr("a")
    ELSE Subscript(elem, 0) = PyStr("a")          \* "first_is_a": lambda r: r[0] == 'a'

\* float(x) of a bool
FloatOfBool(x) == IF x THEN 1 ELSE 0

\* CallableMask iterating the keys of index._pos instead of the elements
CallableMaskOverKeys(S, cond) ==
    [k \in 1..Len(Distinct(S.elements)) |->
        FloatOfBool(Apply(cond, Distinct(S.elements)[k]))]

\* np.array([cond(elem) for elem in index], dtype=float)
CallableMask(S, cond) ==
    [k \in 1..Len(S.elements) |-> FloatOfBool(Apply(cond, S.elements[k]))]

\* np.asarray(cond, dtype=float)
AsFloatArray(cond) ==
    IF IsBools(cond) THEN [k \in 1..Len(cond.b) |-> FloatOfBool(cond.b[k])]
    ELSE cond.f

\* ShapeDiffers rejecting only an array that is too short
ShapeTooShort(mask, S) == Len(mask) < SetLen(S)

\* mask.shape != (len(index),)
ShapeDiffers(mask, S) == Len(mask) # SetLen(S)

\* AllowedSet taking a tuple for one allowed value, as it takes a str
AllowedSetTupleIsValue(allowed) ==
    IF IsList(allowed) THEN Range(allowed.l)
    ELSE IF IsSet(allowed) THEN allowed.st
    ELSE {allowed}

\* allowed = {allowed} unless it is a list, a tuple or a set, then set(allowed)
AllowedSet(allowed) ==
    IF IsList(allowed) THEN Range(allowed.l)
    ELSE IF IsTuple(allowed) THEN Range(allowed.t)
    ELSE IF IsSet(allowed) THEN allowed.st
    ELSE {allowed}

\* what one pass of the loop over kwargs raises, <<exception, which>>: resolving
\* the name, then elem[pos] for every element
FilterExc(S, item) ==
    IF ResolveRaises(S, item[1]) THEN <<"KeyError", "position">>
    ELSE IF KeysExc(S.elements, <<ResolvePosition(S, item[1])>>) # ""
    THEN <<KeysExc(S.elements, <<ResolvePosition(S, item[1])>>), "subscript">>
    ELSE <<"", "">>

RECURSIVE FiltersExc(_, _)
FiltersExc(S, kwargs) ==
    IF kwargs = <<>> THEN <<"", "">>
    ELSE IF FilterExc(S, Head(kwargs))[1] # "" THEN FilterExc(S, Head(kwargs))
         ELSE FiltersExc(S, Tail(kwargs))

\* FilterPass forgetting what the filters before it excluded: mask[i] is assigned
\* 1.0 or 0.0 instead of only 0.0
FilterPassAssigns(S, item, mask) ==
    [k \in 1..Len(S.elements) |->
        IF Subscript(S.elements[k], ResolvePosition(S, item[1])) \notin AllowedSet(item[2])
        THEN 0 ELSE 1]

\* one pass of the loop over kwargs: mask[i] = 0.0 where elem[pos] is not allowed
FilterPass(S, item, mask) ==
    [k \in 1..Len(S.elements) |->
        IF Subscript(S.elements[k], ResolvePosition(S, item[1])) \notin AllowedSet(item[2])
        THEN 0 ELSE mask[k]]

\* the loop over kwargs, from mask = np.ones(n)
RECURSIVE FiltersLoop(_, _, _)
FiltersLoop(S, kwargs, mask) ==
    IF kwargs = <<>> THEN mask
    ELSE FiltersLoop(S, Tail(kwargs), FilterPass(S, Head(kwargs), mask))

\* WhereMaskExc without its first check: a cond is used and the filters are ignored
WhereMaskExcCondFirst(cond, index, kwargs) ==
    IF ~IsNone(cond)
    THEN IF IsCallable(cond)
         THEN IF index = 0 THEN <<"ValueError", "index for callable">> ELSE <<"", "">>
         ELSE IF index # 0 /\ ShapeDiffers(AsFloatArray(cond), sets[index])
              THEN <<"ValueError", "shape">> ELSE <<"", "">>
    ELSE IF kwargs # <<>>
    THEN IF index = 0 THEN <<"ValueError", "index for filters">>
         ELSE IF ~sets[index].is_compound THEN <<"ValueError", "not compound">>
         ELSE FiltersExc(sets[index], kwargs)
    ELSE <<"ValueError", "neither">>

\* what _build_where_mask raises: <<exception, which>>, <<"", "">> for none
WhereMaskExc(cond, index, kwargs) ==
    IF ~IsNone(cond) /\ kwargs # <<>> THEN <<"ValueError", "both">>
    ELSE IF ~IsNone(cond)
    THEN IF IsCallable(cond)
         THEN IF index = 0 THEN <<"ValueError", "index for callable">> ELSE <<"", "">>
         ELSE IF index # 0 /\ ShapeDiffers(AsFloatArray(cond), sets[index])
              THEN <<"ValueError", "shape">> ELSE <<"", "">>
    ELSE IF kwargs # <<>>
    THEN IF index = 0 THEN <<"ValueError", "index for filters">>
         ELSE IF ~sets[index].is_compound THEN <<"ValueError", "not compound">>
         ELSE FiltersExc(sets[index], kwargs)
    ELSE <<"ValueError", "neither">>

\* the mask _build_where_mask returns when it raises nothing
WhereMask(cond, index, kwargs) ==
    IF ~IsNone(cond)
    THEN IF IsCallable(cond) THEN CallableMask(sets[index], cond)
         ELSE AsFloatArray(cond)
    ELSE FiltersLoop(sets[index], kwargs, Ones(SetLen(sets[index])))

\* cp.multiply(mask, expr) of the expression engine: entry by entry when the two are
\* as long, a single entry is used for every entry of the other, and anything else
\* is the engine's ValueError
MultiplyRaises(mask, expr) ==
    Len(mask) # Len(expr) /\ Len(mask) # 1 /\ Len(expr) # 1
Multiply(mask, expr) ==
    IF Len(mask) = Len(expr) THEN [k \in 1..Len(mask) |-> mask[k] * expr[k]]
    ELSE IF Len(mask) = 1 THEN [k \in 1..Len(expr) |-> mask[1] * expr[k]]
    ELSE [k \in 1..Len(mask) |-> mask[k] * expr[1]]

-----------------------------------------------------------------------------
(* The inputs the calls are given *)

Atoms == {PyStr("a"), PyStr("b")}
Pairs == {PyTuple(<<x, y>>) : x \in Atoms, y \in Atoms}
Elems == Atoms \cup Pairs
FewElems == Atoms \cup {PyTuple(<<PyStr("a"), PyStr("b")>>)}

\* every list of at most n values of E
ListsOf(E, n) == UNION {[1..m -> E] : m \in 0..n}

\* the values of name= and of names=
NameArgs == {PyNone, PyStr("o")}
TwoNames == PyTuple(<<PyStr("o"), PyStr("d")>>)
ThreeNames == PyTuple(<<PyStr("o"), PyStr("d"), PyStr("p")>>)
NamesArgs == {PyNone, TwoNames, PyTuple(<<PyStr("d")>>)}

\* a position of a tuple, by offset or by name; one of them or a list of them
PositionKeys == {PyInt(0), PyInt(1), PyInt(2), PyInt(-1), PyStr("o"), PyStr("d")}
PositionArgs == PositionKeys \cup {PyList(q) : q \in ListsOf(PositionKeys, 2)}

\* the values of an expression over n elements: all ones, and 1, 2, ..., n
Ramp(n) == [k \in 1..n |-> k]
ExprsOf(n) == {Ones(n), Ramp(n)}

\* the items of a dict that gives every element a value of its own: 10, 20, ...
DistinctItems(elements) ==
    [k \in 1..Len(Distinct(elements)) |-> <<Distinct(elements)[k], 10 * k>>]

\* the conds given to where for an index of n elements: callables, and arrays of
\* n - 1, n and n + 1 entries
Callables == {PyCallable("always"), PyCallable("never"), PyCallable("is_a"),
              PyCallable("first_is_a")}
ArraysOf(m) ==
    {PyArray(Ones(m)), PyArray(Zeros(m)), PyArray(Ramp(m)),
     PyBools([k \in 1..m |-> k % 2 = 1])}
CondArgs(n) ==
    Callables \cup UNION {ArraysOf(m) : m \in {k \in (n - 1)..(n + 1) : k >= 0}}

\* the position filters given to where: none, one, or two in either order
AllowedArgs ==
    {PyStr("a"), PyStr("b"), PyList(<<PyStr("a"), PyStr("b")>>), PyTuple(<<PyStr("b")>>)}
KwargsArgs ==
    {<<>>}
        \cup {<<<<nm, al>>>> : nm \in {PyStr("o"), PyStr("d")}, al \in AllowedArgs}
        \cup {<<<<x[1], x[2]>>, <<x[3], x[4]>>>> :
                 x \in {y \in {PyStr("o"), PyStr("d")} \X AllowedArgs
                               \X {PyStr("o"), PyStr("d")} \X AllowedArgs :
                           y[1] # y[3]}}

\* cond and kwargs together: one of them, none of them, or both
WhereArgs(n) ==
    {<<c, <<>>>> : c \in CondArgs(n) \cup {PyNone}}
        \cup {<<PyNone, kw>> : kw \in KwargsArgs}
        \cup {<<c, <<<<PyStr("o"), PyStr("a")>>>>>> : c \in CondArgs(n)}

\* the Set objects Set(elements, name, names) constructs without raising
SetsOver(E, n, nameArgs, namesArgs, id) ==
    {SetInit(x[1], x[2], x[3], id) :
        x \in {y \in ListsOf(E, n) \X nameArgs \X namesArgs :
                  ~SetInitRaises(y[1], y[3])}}

\* the lists Set(...) is meant for: no element twice, and at least one
DistinctLists(E, n) ==
    {q \in ListsOf(E, n) : q # <<>> /\ \A k, m \in 1..Len(q) : q[k] = q[m] => k = m}

\* the Set objects Set.cross returns for k operands that list atoms
CrossedSets(k, namesArgs, id) ==
    {SetInit(CrossElements(x[1]), PyNone, x[2], id) :
        x \in {y \in [1..k -> {SetInit(q, PyNone, PyNone, 1) :
                                  q \in DistinctLists(Atoms, MaxOperandLen)}]
                      \X namesArgs :
                  ~SetInitRaises(CrossElements(y[1]), y[2])}}

\* the index Sets given to sum_by and where: constructed ones and crossed ones
IndexSets ==
    SetsOver(Elems, MaxLen, {PyNone}, NamesArgs, 1)
        \cup UNION {CrossedSets(k, {TwoNames, ThreeNames}, 1) :
                        k \in 2..MaxOperands}

-----------------------------------------------------------------------------
(* The calls. A call leaves in ret its arguments, the exception it raised  *)
(* ("" for none) and the value it returned.                                *)

NoCall == [op |-> "none"]

\* The calls of this module change no Set: a second call in a run would start from
\* the sets the first started from, so a run makes one call.
Idle == ret.op = "none"

\* Set(elements, name=name, names=names)
NewSet(elements, name, names) ==
    LET raises == SetInitRaises(elements, names)
    IN  /\ ret' = [op |-> "Set", elements |-> elements, name |-> name, names |-> names,
                   exc |-> IF raises THEN "ValueError" ELSE "",
                   val |-> IF raises THEN PyNone
                           ELSE SetInit(elements, name, names, Len(sets) + 1)]
        /\ UNCHANGED <<sets, params>>

\* sets[id].position(elem)
CallPosition(id, elem) ==
    LET raises == PositionRaises(sets[id], elem)
    IN  /\ ret' = [op |-> "position", set |-> id, elem |-> elem,
                   exc |-> IF raises THEN "KeyError" ELSE "",
                   val |-> IF raises THEN PyNone ELSE PyInt(Position(sets[id], elem))]
        /\ UNCHANGED <<sets, params>>

\* sets[id]._resolve_position(key)
CallResolve(id, key) ==
    LET raises == ResolveRaises(sets[id], key)
    IN  /\ ret' = [op |-> "resolve", set |-> id, key |-> key,
                   exc |-> IF raises THEN "KeyError" ELSE "",
                   val |-> IF raises THEN PyNone
                           ELSE PyInt(ResolvePosition(sets[id], key))]
        /\ UNCHANGED <<sets, params>>

\* list(sets[id]): Set.__iter__ hands out the elements in construction order
CallIter(id) ==
    /\ ret' = [op |-> "iter", set |-> id, exc |-> "", val |-> sets[id].elements]
    /\ UNCHANGED <<sets, params>>

\* what Set.cross(*[sets[k] for k in ids], name=name, names=names) raises and returns
CrossRet(ids, name, names) ==
    LET indices == [k \in 1..Len(ids) |-> sets[ids[k]]]
        elements == CrossElements(indices)
        given == CrossNames(indices, names)
        raises == CrossRaises(indices) \/ SetInitRaises(elements, given)
    IN  [op |-> "cross", indices |-> ids, name |-> name, names |-> names,
         exc |-> IF raises THEN "ValueError" ELSE "",
         val |-> IF raises THEN PyNone
                 ELSE SetInit(elements, name, given, Len(sets) + 1)]

\* Set.cross(*[sets[k] for k in ids], name=name, names=names), the result dropped
CallCross(ids, name, names) ==
    /\ ret' = CrossRet(ids, name, names)
    /\ UNCHANGED <<sets, params>>

\* KeepCross building the product in its first operand instead of in a new Set
KeepCrossInPlace(ids, name, names) ==
    /\ ret' = CrossRet(ids, name, names)
    /\ sets' = IF CrossRet(ids, name, names).exc = ""
               THEN [sets EXCEPT ![ids[1]] = CrossRet(ids, name, names).val]
               ELSE sets
    /\ UNCHANGED params

\* P = Set.cross(...): the product is the next Set the program holds
KeepCross(ids, name, names) ==
    /\ ret' = CrossRet(ids, name, names)
    /\ sets' = IF CrossRet(ids, name, names).exc = ""
               THEN Append(sets, CrossRet(ids, name, names).val)
               ELSE sets
    /\ UNCHANGED params

\* sum_by(expr, positions, index=sets[id])
CallSumBy(id, positions, expr) ==
    LET S == sets[id]
        exc == SumByExc(S, positions)
        pos_indices == ResolveAll(S, NormalizePositions(positions))
    IN  /\ ret' = IF exc[1] # ""
                  THEN [op |-> "sum_by", index |-> id, positions |-> positions,
                        expr |-> expr, exc |-> exc[1], which |-> exc[2]]
                  ELSE [op |-> "sum_by", index |-> id, positions |-> positions,
                        expr |-> expr, exc |-> "", which |-> "",
                        pos_indices |-> pos_indices,
                        group_keys |-> GroupKeys(S, pos_indices),
                        matrix |-> BuildAggregationMatrix(S, pos_indices),
                        val |-> MatVec(BuildAggregationMatrix(S, pos_indices), expr)]
        /\ UNCHANGED <<sets, params>>

\* CallExpand with a lenient lookup: a key the source does not have raises nothing
\* and leaves the 0.0 of np.zeros in its entry
CallExpandZeroFill(pid, tid, positions) ==
    LET P == params[pid]
        source == sets[P.index]
        target == sets[tid]
        pos_indices == ResolveAll(target, positions)
        exc == IF ~target.is_compound THEN <<"ValueError", "not compound">>
               ELSE IF ResolveAllRaises(target, positions) THEN <<"KeyError", "position">>
               ELSE IF KeysExc(target.elements, pos_indices) # ""
               THEN <<KeysExc(target.elements, pos_indices), "subscript">>
               ELSE IF IsNone(P.value) THEN <<"TypeError", "value">>
               ELSE <<"", "">>
    IN  /\ ret' = [op |-> "expand", param |-> pid, target |-> tid,
                   positions |-> positions, exc |-> exc[1], which |-> exc[2],
                   val |-> IF exc[1] # "" THEN PyNone
                           ELSE [index |-> tid,
                                 value |-> PyArray(
                                    [k \in 1..Len(target.elements) |->
                                        IF PositionRaises(source,
                                              ExpandKey(target.elements[k], pos_indices))
                                        THEN 0
                                        ELSE P.value.f[Position(source,
                                              ExpandKey(target.elements[k], pos_indices)) + 1]])]]
        /\ UNCHANGED <<sets, params>>

\* params[pid].expand(sets[tid], positions), positions a list
CallExpand(pid, tid, positions) ==
    LET P == params[pid]
        source == sets[P.index]
        target == sets[tid]
        exc == ExpandExc(P, source, target, positions)
    IN  /\ ret' = [op |-> "expand", param |-> pid, target |-> tid,
                   positions |-> positions, exc |-> exc[1], which |-> exc[2],
                   val |-> IF exc[1] # "" THEN PyNone
                           ELSE [index |-> tid,
                                 value |-> PyArray(ExpandValues(P, source, target,
                                                     ResolveAll(target, positions)))]]
        /\ UNCHANGED <<sets, params>>

\* where(expr, cond, index=sets[index] or None, **kwargs)
CallWhere(expr, cond, index, kwargs) ==
    LET exc == WhereMaskExc(cond, index, kwargs)
    IN  /\ ret' = IF exc[1] # ""
                  THEN [op |-> "where", expr |-> expr, cond |-> cond, index |-> index,
                        kwargs |-> kwargs, exc |-> exc[1], which |-> exc[2],
                        mask |-> PyNone, val |-> PyNone]
                  ELSE IF MultiplyRaises(WhereMask(cond, index, kwargs), expr)
                  THEN [op |-> "where", expr |-> expr, cond |-> cond, index |-> index,
                        kwargs |-> kwargs, exc |-> "ValueError", which |-> "engine",
                        mask |-> PyArray(WhereMask(cond, index, kwargs)), val |-> PyNone]
                  ELSE [op |-> "where", expr |-> expr, cond |-> cond, index |-> index,
                        kwargs |-> kwargs, exc |-> "", which |-> "",
                        mask |-> PyArray(WhereMask(cond, index, kwargs)),
                        val |-> PyArray(Multiply(WhereMask(cond, index, kwargs), expr))]
        /\ UNCHANGED <<sets, params>>

\* CallSetData writing into self.value as it goes: a KeyError leaves behind the
\* entries of the items before the one that raised
CallSetDataInPlace(pid, data) ==
    LET S == sets[params[pid].index]
        raises == SetDataRaises(S, data)
        bad == CHOOSE k \in 1..Len(data) :
                  /\ PositionRaises(S, data[k][1])
                  /\ \A m \in 1..(k - 1) : ~PositionRaises(S, data[m][1])
        written == IF raises THEN SubSeq(data, 1, bad - 1) ELSE data
    IN  /\ ret' = [op |-> "set_data", param |-> pid, data |-> PyDict(data),
                   exc |-> IF raises THEN "KeyError" ELSE "", val |-> PyNone]
        /\ params' = [params EXCEPT ![pid].value = SetData(S, written)]
        /\ UNCHANGED sets

\* CallSetData filling the array the Parameter has, when it has one, instead of a
\* new array of zeros: the entries of keys that data does not have stay
CallSetDataMerge(pid, data) ==
    LET S == sets[params[pid].index]
        raises == SetDataRaises(S, data)
        values == IF IsNone(params[pid].value) THEN Zeros(SetLen(S))
                  ELSE params[pid].value.f
    IN  /\ ret' = [op |-> "set_data", param |-> pid, data |-> PyDict(data),
                   exc |-> IF raises THEN "KeyError" ELSE "", val |-> PyNone]
        /\ params' = IF raises THEN params
                     ELSE [params EXCEPT ![pid].value = PyArray(SetDataLoop(S, data, values))]
        /\ UNCHANGED sets

\* params[pid].set_data(data), data the items of the dict: self.value is assigned
\* after the loop, so a KeyError in the loop leaves the Parameter as it was
CallSetData(pid, data) ==
    LET S == sets[params[pid].index]
        raises == SetDataRaises(S, data)
    IN  /\ ret' = [op |-> "set_data", param |-> pid, data |-> PyDict(data),
                   exc |-> IF raises THEN "KeyError" ELSE "", val |-> PyNone]
        /\ params' = IF raises THEN params
                     ELSE [params EXCEPT ![pid].value = SetData(S, data)]
        /\ UNCHANGED sets

\* a float
PyFloat(x) == [x |-> x]

\* params[pid].get_value(key): None while there is no value
CallGetValue(pid, key) ==
    LET P == params[pid]
        S == sets[P.index]
    IN  /\ ret' = IF IsNone(P.value)
                  THEN [op |-> "get_value", param |-> pid, key |-> key,
                        exc |-> "", val |-> PyNone]
                  ELSE IF PositionRaises(S, key)
                  THEN [op |-> "get_value", param |-> pid, key |-> key,
                        exc |-> "KeyError", val |-> PyNone]
                  ELSE [op |-> "get_value", param |-> pid, key |-> key,
                        exc |-> "", val |-> PyFloat(P.value.f[Position(S, key) + 1])]
        /\ UNCHANGED <<sets, params>>

\* CallGetItem taking an int that is an offset of the array for that offset, before
\* it looks for the key among the elements
CallGetItemOffsetFirst(pid, key) ==
    LET P == params[pid]
        S == sets[P.index]
        n == SetLen(S)
    IN  /\ ret' = IF IsInt(key) /\ key.i < n /\ key.i >= -n
                  THEN [op |-> "getitem", param |-> pid, key |-> key, exc |-> "",
                        which |-> "offset",
                        val |-> PyInt(IF key.i < 0 THEN key.i + n ELSE key.i)]
                  ELSE IF SetContains(S, key)
                  THEN [op |-> "getitem", param |-> pid, key |-> key, exc |-> "",
                        which |-> "label", val |-> PyInt(Position(S, key))]
                  ELSE [op |-> "getitem", param |-> pid, key |-> key,
                        exc |-> IF IsInt(key) THEN "IndexError" ELSE "Error",
                        which |-> "engine", val |-> PyNone]
        /\ UNCHANGED <<sets, params>>

\* params[pid][key]: an element of the index picks the entry at its position; any
\* other key goes to the indexing of the expression engine, which takes an int as an
\* offset (a negative one from the end) and refuses the strs and tuples of the model.
\* val is the offset of the entry the returned expression selects.
CallGetItem(pid, key) ==
    LET P == params[pid]
        S == sets[P.index]
        n == SetLen(S)
    IN  /\ ret' = IF SetContains(S, key)
                  THEN [op |-> "getitem", param |-> pid, key |-> key, exc |-> "",
                        which |-> "label", val |-> PyInt(Position(S, key))]
                  ELSE IF ~IsInt(key)
                  THEN [op |-> "getitem", param |-> pid, key |-> key, exc |-> "Error",
                        which |-> "engine", val |-> PyNone]
                  ELSE IF key.i >= n \/ key.i < -n
                  THEN [op |-> "getitem", param |-> pid, key |-> key,
                        exc |-> "IndexError", which |-> "engine", val |-> PyNone]
                  ELSE [op |-> "getitem", param |-> pid, key |-> key, exc |-> "",
                        which |-> "offset",
                        val |-> PyInt(IF key.i < 0 THEN key.i + n ELSE key.i)]
        /\ UNCHANGED <<sets, params>>

-----------------------------------------------------------------------------
(* Set(...) and position: the program holds one Set and asks it for its    *)
(* elements and their positions                                            *)

InitSet ==
    /\ sets \in {<<S>> : S \in SetsOver(Elems, MaxLen, {PyNone}, NamesArgs, 1)}
    /\ params = <<>>
    /\ ret = NoCall

NextSet ==
    \/ \E e \in Elems : Idle /\ CallPosition(1, e)
    \/ Idle /\ CallIter(1)
    \/ \E key \in PositionKeys \cup {PyStr("p")} : Idle /\ CallResolve(1, key)

SpecSet == InitSet /\ [][NextSet]_vars

-----------------------------------------------------------------------------
(* Set.cross: the program holds two Sets and crosses them                  *)

InitCross ==
    /\ sets \in {<<A, B>> : A \in SetsOver(FewElems, MaxOperandLen, NameArgs, {PyNone}, 1),
                            B \in SetsOver(Atoms, MaxOperandLen, NameArgs, {PyNone}, 2)}
    /\ params = <<>>
    /\ ret = NoCall

NextCross ==
    \E ids \in ListsOf(1..2, MaxOperands), nms \in {PyNone, TwoNames} :
        Idle /\ CallCross(ids, PyNone, nms)

SpecCross == InitCross /\ [][NextCross]_vars

-----------------------------------------------------------------------------
(* sum_by: the program holds one index Set and aggregates over it          *)

InitSumBy ==
    /\ sets \in {<<S>> : S \in IndexSets}
    /\ params = <<>>
    /\ ret = NoCall

NextSumBy ==
    \E p \in PositionArgs, x \in ExprsOf(SetLen(sets[1])) :
        Idle /\ CallSumBy(1, p, x)

SpecSumBy == InitSumBy /\ [][NextSumBy]_vars

-----------------------------------------------------------------------------
(* expand: the program holds a source Set, a Parameter over it and a       *)
(* target Set, and expands the Parameter to the target                     *)

TargetSets ==
    SetsOver(Elems, MaxOperandLen, {PyNone}, {PyNone, TwoNames}, 2)
        \cup UNION {CrossedSets(k, {TwoNames, ThreeNames}, 2) : k \in 2..3}

InitExpand ==
    /\ sets \in {<<S, T>> : S \in SetsOver(FewElems, MaxOperandLen, {PyNone}, {PyNone}, 1),
                            T \in TargetSets}
    /\ params \in {<<ParameterInit(1, data)>> :
                      data \in {PyNone, PyDict(DistinctItems(sets[1].elements))}}
    /\ ret = NoCall

NextExpand ==
    \E q \in ListsOf({PyInt(0), PyInt(1), PyInt(2), PyStr("o")}, 2) :
        Idle /\ CallExpand(1, 2, q)

SpecExpand == InitExpand /\ [][NextExpand]_vars

-----------------------------------------------------------------------------
(* where: the program holds one index Set and masks an expression over it  *)

InitWhere ==
    /\ sets \in {<<S>> : S \in SetsOver(Elems, MaxOperandLen, {PyNone}, NamesArgs, 1)
                              \cup UNION {CrossedSets(k, {TwoNames, ThreeNames}, 1) :
                                             k \in 2..3}}
    /\ params = <<>>
    /\ ret = NoCall

NextWhere ==
    \E a \in WhereArgs(SetLen(sets[1])), index \in 0..1 :
        Idle /\ CallWhere(Ramp(SetLen(sets[1])), a[1], index, a[2])

SpecWhere == InitWhere /\ [][NextWhere]_vars

-----------------------------------------------------------------------------
(* A session: the program holds a source Set, a Parameter over it and a     *)
(* second Set. It crosses its Sets and keeps the product, gives the         *)
(* Parameter new data, and hands any of its Sets to sum_by, where and       *)
(* expand. A call that changes neither sets nor params is the last of its   *)
(* run: the call after it would start from the sets and params it found.    *)

\* the dicts given to set_data over a Set: empty, every element with a value of its
\* own in reverse order of insertion, and one with a key the Set may lack
ReverseItems(items) == [k \in 1..Len(items) |-> items[Len(items) + 1 - k]]
SessionDicts(S) ==
    {<<>>,
     [k \in 1..Len(DistinctItems(S.elements)) |->
         <<ReverseItems(DistinctItems(S.elements))[k][1], 5 * k>>],
     << <<PyStr("a"), 3>>, <<PyStr("b"), 7>> >>}

SessionPositions ==
    {PyInt(0), PyInt(1), PyInt(2), PyInt(-1), PyStr("o"),
     PyList(<<PyInt(0), PyInt(1)>>), PyList(<<PyInt(-1)>>)}

SessionExpandPositions ==
    {<<PyInt(0)>>, <<PyInt(1)>>, <<PyInt(2)>>, <<PyInt(-1)>>, <<PyStr("o")>>,
     <<PyInt(1), PyInt(0)>>}

SessionWhereArgs ==
    {<<PyNone, <<<<PyStr("o"), PyStr("a")>>>>>>,
     <<PyNone, <<<<PyStr("d"), PyList(<<PyStr("a"), PyStr("b")>>)>>>>>>,
     <<PyCallable("always"), <<>>>>,
     <<PyCallable("is_a"), <<<<PyStr("o"), PyStr("a")>>>>>>,
     <<PyNone, <<>>>>}

SessionKeys == Atoms \cup {PyInt(0), PyInt(-1), PyInt(2)}

\* the run may go on: no call yet, or the last call was one that the next can see
Open == ret.op \in {"none", "cross", "set_data"}

InitSession ==
    /\ sets \in {<<S, T>> :
                    S \in SetsOver(Atoms, MaxOperandLen, {PyNone}, {PyNone}, 1),
                    T \in SetsOver({PyStr("a"), PyTuple(<<PyStr("a"), PyStr("b")>>)},
                                   MaxOperandLen, {PyNone}, {PyNone, TwoNames}, 2)}
    /\ params = <<ParameterInit(1, PyDict(DistinctItems(sets[1].elements)))>>
    /\ ret = NoCall

NextSession ==
    \/ \E ids \in [1..2 -> 1..2] :
          Open /\ Len(sets) = 2 /\ KeepCross(ids, PyNone, PyNone)
    \/ \E d \in SessionDicts(sets[1]) : Open /\ CallSetData(1, d)
    \/ \E id \in 1..Len(sets), p \in SessionPositions :
          Open /\ CallSumBy(id, p, Ramp(SetLen(sets[id])))
    \/ \E id \in 1..Len(sets), q \in SessionExpandPositions :
          Open /\ CallExpand(1, id, q)
    \/ \E id \in 1..Len(sets), a \in SessionWhereArgs :
          Open /\ CallWhere(Ramp(SetLen(sets[id])), a[1], id, a[2])
    \/ \E key \in SessionKeys : Open /\ CallGetValue(1, key)
    \/ \E key \in SessionKeys : Open /\ CallGetItem(1, key)

SpecSession == InitSession /\ [][NextSession]_vars

-----------------------------------------------------------------------------
(* Set(...): the program constructs a Set from a list of elements           *)

\* the elements a Set is constructed from: scalars, pairs and a 1-tuple
NewElems == Elems \cup {PyTuple(<<PyStr("a")>>)}

InitNew ==
    /\ sets = <<>>
    /\ params = <<>>
    /\ ret = NoCall

NextNew ==
    \E q \in ListsOf(NewElems, MaxLen), nms \in NamesArgs :
        Idle /\ NewSet(q, PyNone, nms)

SpecNew == InitNew /\ [][NextNew]_vars

-----------------------------------------------------------------------------
(* set_data: the program holds a Set and a Parameter over it without a      *)
(* value, and gives the Parameter the data of a dict                        *)

\* the dicts over the keys of E: every list of keys without a repetition, the k-th
\* item with the value 10 * k
DictsOver(E) ==
    {[k \in 1..Len(q) |-> <<q[k], 10 * k>>] :
        q \in {r \in ListsOf(E, Cardinality(E)) :
                  \A k, m \in 1..Len(r) : r[k] = r[m] => k = m}}

InitSetData ==
    /\ sets \in {<<S>> : S \in SetsOver(FewElems, MaxLen, {PyNone}, {PyNone}, 1)}
    /\ params = <<ParameterInit(1, PyNone)>>
    /\ ret = NoCall

NextSetData ==
    \E d \in DictsOver(FewElems) : Idle /\ CallSetData(1, d)

SpecSetData == InitSetData /\ [][NextSetData]_vars

-----------------------------------------------------------------------------
(* io.py: Sets and Parameters from tables, and tables from Parameters and   *)
(* Variables. A DataFrame is the list of its rows, a row the record of its  *)
(* columns: the labels o and d and the number v; row[col] is row[col.s].    *)

\* drop_duplicates() and unique(): every value at its first occurrence only
RECURSIVE DropDuplicatesLoop(_, _)
DropDuplicatesLoop(q, seen) ==
    IF q = <<>> THEN <<>>
    ELSE IF Head(q) \in seen THEN DropDuplicatesLoop(Tail(q), seen)
         ELSE <<Head(q)>> \o DropDuplicatesLoop(Tail(q), seen \cup {Head(q)})

DropDuplicates(q) == DropDuplicatesLoop(q, {})

\* df[list(columns)].itertuples(index=False, name=None): a tuple per row, also for
\* one column
RowTuples(df, columns) ==
    [k \in 1..Len(df) |-> PyTuple([c \in 1..Len(columns) |-> df[k][columns[c].s]])]

\* the elements and the names set_from_dataframe hands to Set(...)
FrameElements(df, columns) == DropDuplicates(RowTuples(df, columns))
FrameNames(columns, names) == IF IsNone(names) THEN PyTuple(columns) ELSE names

\* index_cols = [index_cols] for a str
NormalizeCols(index_cols) == IF IsStr(index_cols) THEN <<index_cols>> ELSE index_cols.l

\* the key parameter_from_dataframe forms for a row: the label of one column, or the
\* tuple of the labels of several
RowKey(row, cols) ==
    IF Len(cols) = 1 THEN row[cols[1].s]
    ELSE PyTuple([c \in 1..Len(cols) |-> row[cols[c].s]])

\* data[key] = val on the items of a dict: a key that is there keeps its place
DictAssign(items, key, val) ==
    IF \E k \in 1..Len(items) : items[k][1] = key
    THEN [k \in 1..Len(items) |-> IF items[k][1] = key THEN <<key, val>> ELSE items[k]]
    ELSE Append(items, <<key, val>>)

\* the loop over df.iterrows() that builds the data dict
RECURSIVE FrameDataLoop(_, _, _)
FrameDataLoop(df, cols, items) ==
    IF df = <<>> THEN items
    ELSE FrameDataLoop(Tail(df), cols,
                       DictAssign(items, RowKey(Head(df), cols), Head(df).v))

FrameData(df, cols) == FrameDataLoop(df, cols, <<>>)

\* the rows of the tables, and the tables
Rows == {[o |-> x, d |-> y, v |-> n] : x \in Atoms, y \in Atoms, n \in 1..2}
Frames == ListsOf(Rows, MaxLen)

\* the index_cols given to parameter_from_dataframe: a column name, or a list of them
IndexColsArgs ==
    {PyStr("o"), PyList(<<PyStr("d")>>), PyList(<<PyStr("o"), PyStr("d")>>),
     PyList(<<PyStr("d"), PyStr("o")>>)}

\* P = parameter_from_dataframe(df, index_cols, "v"), no index given: the Set it
\* creates and the Parameter it returns are the program's from then on
CallParameterFromDataframe(df, index_cols) ==
    LET cols == NormalizeCols(index_cols)
        elements == FrameElements(df, cols)
        names == FrameNames(cols, PyNone)
        index == SetInit(elements, PyNone, names, Len(sets) + 1)
        data == FrameData(df, cols)
        exc == IF SetInitRaises(elements, names) THEN <<"ValueError", "names">>
               ELSE IF SetDataRaises(index, data) THEN <<"KeyError", "element">>
               ELSE <<"", "">>
    IN  /\ ret' = [op |-> "parameter_from_dataframe", df |-> df,
                   index_cols |-> index_cols, exc |-> exc[1], which |-> exc[2],
                   labels |-> RowTuples(df, cols),
                   built |-> IF exc[1] = "ValueError" THEN PyNone ELSE index,
                   val |-> IF exc[1] # "" THEN PyNone
                           ELSE [index |-> Len(sets) + 1, value |-> SetData(index, data)]]
        /\ sets' = IF exc[1] # "" THEN sets ELSE Append(sets, index)
        /\ params' = IF exc[1] # "" THEN params
                     ELSE Append(params, [index |-> Len(sets) + 1,
                                          value |-> SetData(index, data)])

\* a Series is [index |-> its labels, values |-> its values, name |-> its name]; the
\* index of a frame or of a Series is a MultiIndex exactly when multi is TRUE, and
\* then its labels are tuples and names are the names of its levels
SeriesOfLabels ==
    {[index |-> [multi |-> FALSE, labels |-> [k \in 1..Len(q) |-> PyInt(k - 1)],
                 names |-> PyNone],
      values |-> q, name |-> nm] :
        q \in ListsOf(Atoms, MaxLen), nm \in NameArgs}

TableIndexes ==
    {[multi |-> FALSE, labels |-> q, names |-> PyNone] : q \in ListsOf(Atoms, MaxLen)}
        \cup {[multi |-> TRUE, labels |-> q, names |-> TwoNames] :
                 q \in ListsOf(Pairs, MaxOperandLen)}

SeriesOfNumbers ==
    {[index |-> ix, values |-> [k \in 1..Len(ix.labels) |-> 10 * k], name |-> PyNone] :
        ix \in TableIndexes}

\* S = set_from_series(series, name): the unique values of the series
CallSetFromSeries(series, name) ==
    LET elements == DropDuplicates(series.values)
        given == IF Truthy(name) THEN name ELSE series.name
    IN  /\ ret' = [op |-> "set_from_series", exc |-> "", which |-> "",
                   labels |-> series.values,
                   built |-> SetInit(elements, given, PyNone, Len(sets) + 1)]
        /\ sets' = Append(sets, SetInit(elements, given, PyNone, Len(sets) + 1))
        /\ UNCHANGED params

\* S = set_from_dataframe(df, columns, names=names)
CallSetFromDataframe(df, columns, names) ==
    LET elements == FrameElements(df, columns)
        given == FrameNames(columns, names)
        raises == SetInitRaises(elements, given)
        index == SetInit(elements, PyNone, given, Len(sets) + 1)
    IN  /\ ret' = [op |-> "set_from_dataframe",
                   exc |-> IF raises THEN "ValueError" ELSE "",
                   which |-> IF raises THEN "names" ELSE "",
                   labels |-> RowTuples(df, columns),
                   built |-> IF raises THEN PyNone ELSE index]
        /\ sets' = IF raises THEN sets ELSE Append(sets, index)
        /\ UNCHANGED params

\* S = set_from_index(df, names=names), ix the index of df: list(df.index), and the
\* names of the levels of a MultiIndex when no names are given
CallSetFromIndex(ix, names) ==
    LET elements == ix.labels
        given == IF ix.multi /\ IsNone(names) THEN ix.names ELSE names
        raises == SetInitRaises(elements, given)
        index == SetInit(elements, PyNone, given, Len(sets) + 1)
    IN  /\ ret' = [op |-> "set_from_index",
                   exc |-> IF raises THEN "ValueError" ELSE "",
                   which |-> IF raises THEN "names" ELSE "",
                   labels |-> ix.labels,
                   built |-> IF raises THEN PyNone ELSE index]
        /\ sets' = IF raises THEN sets ELSE Append(sets, index)
        /\ UNCHANGED params

\* P = parameter_from_series(series), no index given: the Set is list(series.index)
\* and the data dict(series). For a label that the index repeats, series[label] is
\* not a number but the Series of its rows, which the array of set_data refuses
\* (the ValueError of the array library).
CallParameterFromSeries(series) ==
    LET elements == series.index.labels
        given == IF series.index.multi THEN series.index.names ELSE PyNone
        index == SetInit(elements, series.name, given, Len(sets) + 1)
        repeats == \E k, m \in 1..Len(elements) : k # m /\ elements[k] = elements[m]
        data == [k \in 1..Len(elements) |-> <<elements[k], series.values[k]>>]
        exc == IF SetInitRaises(elements, given) THEN <<"ValueError", "names">>
               ELSE IF repeats THEN <<"ValueError", "engine">>
               ELSE <<"", "">>
    IN  /\ ret' = [op |-> "parameter_from_series", exc |-> exc[1], which |-> exc[2],
                   labels |-> elements,
                   built |-> IF exc[2] = "names" THEN PyNone ELSE index,
                   val |-> IF exc[1] # "" THEN PyNone
                           ELSE [index |-> Len(sets) + 1, value |-> SetData(index, data)]]
        /\ sets' = IF exc[1] # "" THEN sets ELSE Append(sets, index)
        /\ params' = IF exc[1] # "" THEN params
                     ELSE Append(params, [index |-> Len(sets) + 1,
                                          value |-> SetData(index, data)])

InitImport ==
    /\ sets = <<>>
    /\ params = <<>>
    /\ ret = NoCall

NextImport ==
    \/ \E df \in Frames, ic \in IndexColsArgs : Idle /\ CallParameterFromDataframe(df, ic)
    \/ \E sr \in SeriesOfLabels, nm \in NameArgs : Idle /\ CallSetFromSeries(sr, nm)
    \/ \E df \in Frames, nms \in {PyNone, TwoNames} :
          \E cl \in {<<PyStr("o")>>, <<PyStr("o"), PyStr("d")>>, <<PyStr("d"), PyStr("o")>>} :
              Idle /\ CallSetFromDataframe(df, cl, nms)
    \/ \E ix \in TableIndexes, nms \in {PyNone, TwoNames} : Idle /\ CallSetFromIndex(ix, nms)
    \/ \E sr \in SeriesOfNumbers : Idle /\ CallParameterFromSeries(sr)

SpecImport == InitImport /\ [][NextImport]_vars

-----------------------------------------------------------------------------
(* io.py, export: the program holds a Set, a Parameter over it and a        *)
(* Variable over it (params[2]: a Variable is, like a Parameter, [index,    *)
(* value], its value None until the problem is solved), and exports them.   *)
(* A DataFrame that is returned is [columns, rows], a row the list of its   *)
(* cells: labels, and the value as a float.                                 *)

\* the row of one element: list(elem) + [value] for a tuple, [elem, value] otherwise
ExportRow(S, value, elem) ==
    IF IsTuple(elem) THEN Append(elem.t, PyFloat(value.f[Position(S, elem) + 1]))
    ELSE <<elem, PyFloat(value.f[Position(S, elem) + 1])>>

\* the loop that builds rows: one per element, in the order of the Set
ExportRows(S, value) ==
    [k \in 1..SetLen(S) |-> ExportRow(S, value, S.elements[k])]

\* the column names: the names of the positions, or pos_0, pos_1, ..., or the name
\* of the Set, and then value_col
ExportColumns(S) ==
    IF S.is_compound /\ Truthy(S.names)
    THEN [k \in 1..Len(S.names.t) |-> S.names.t[k].s] \o <<"value">>
    ELSE IF S.is_compound
    THEN [k \in 1..Len(S.elements[1].t) |-> "pos_" \o ToString(k - 1)] \o <<"value">>
    ELSE <<S.name.s, "value">>

\* the longest row
RowWidth(rows) ==
    CHOOSE w \in {Len(rows[k]) : k \in 1..Len(rows)} :
        \A k \in 1..Len(rows) : Len(rows[k]) <= w

\* pd.DataFrame(rows, columns=columns) of the table library: rows that are shorter
\* than the longest are filled up with missing cells, and a longest row that has not
\* as many cells as there are columns is the library's ValueError
FrameRaises(rows, columns) == rows # <<>> /\ RowWidth(rows) # Len(columns)
FrameOf(rows, columns) ==
    [columns |-> columns,
     rows |-> [k \in 1..Len(rows) |->
                  [c \in 1..Len(columns) |->
                      IF c <= Len(rows[k]) THEN rows[k][c] ELSE PyNone]]]

\* parameter_to_dataframe(X) and variable_to_dataframe(X), X = params[pid]
ToDataframe(op, pid) ==
    LET X == params[pid]
        S == sets[X.index]
        exc == IF IsNone(X.value) THEN <<"ValueError", "no value">>
               ELSE IF FrameRaises(ExportRows(S, X.value), ExportColumns(S))
               THEN <<"ValueError", "engine">>
               ELSE <<"", "">>
    IN  /\ ret' = [op |-> op, param |-> pid, exc |-> exc[1], which |-> exc[2],
                   val |-> IF exc[1] # "" THEN PyNone
                           ELSE FrameOf(ExportRows(S, X.value), ExportColumns(S))]
        /\ UNCHANGED <<sets, params>>

CallParameterToDataframe(pid) == ToDataframe("parameter_to_dataframe", pid)
CallVariableToDataframe(pid) == ToDataframe("variable_to_dataframe", pid)

\* the dicts over keys of E that set_data accepts for a Set
DictsFor(S, E) == {d \in DictsOver(E) : ~SetDataRaises(S, d)}

InitExport ==
    /\ sets \in {<<S>> : S \in SetsOver(FewElems, MaxLen, {PyNone}, {PyNone, TwoNames}, 1)}
    /\ params \in {<<ParameterInit(1, data), [index |-> 1, value |-> v]>> :
                      data \in {PyNone} \cup {PyDict(d) : d \in DictsFor(sets[1], FewElems)},
                      v \in {PyNone, PyArray(Ramp(SetLen(sets[1])))}}
    /\ ret = NoCall

NextExport ==
    \/ Idle /\ CallParameterToDataframe(1)
    \/ Idle /\ CallVariableToDataframe(2)

SpecExport == InitExport /\ [][NextExport]_vars

-----------------------------------------------------------------------------
(* A model as the examples build it: the program holds operand Sets, the   *)
(* product routes = Set.cross(...) of all of them as its last Set, and a   *)
(* Variable ship over the product (params[1], its value the solution), and *)
(* aggregates the Variable. The first operand may list an element twice.   *)

\* the names given to a product of k operands
NamesOf(k) == PyTuple(SubSeq(<<PyStr("o"), PyStr("d"), PyStr("p"), PyStr("q")>>, 1, k))

\* the positions given to sum_by: one offset or name, or a list of offsets
OffsetLists == ListsOf({PyInt(0), PyInt(1), PyInt(2)}, 3) \ {<<>>}
ProductPositions ==
    {PyInt(0), PyInt(1), PyInt(2), PyStr("o"), PyStr("d")}
        \cup {PyList(q) : q \in OffsetLists}

\* sum_by(params[pid], positions, index=params[pid].index) when the index is given,
\* and sum_by(params[pid], positions) when it is not: index is a parameter without a
\* default, so the call that leaves it out raises the TypeError of a missing
\* argument before the body runs (ret.index is then 0, the id of no Set)
CallSumByOf(pid, positions, given) ==
    IF given
    THEN CallSumBy(params[pid].index, positions, params[pid].value.f)
    ELSE /\ ret' = [op |-> "sum_by", index |-> 0, positions |-> positions,
                    expr |-> params[pid].value.f, exc |-> "TypeError",
                    which |-> "missing index"]
         /\ UNCHANGED <<sets, params>>

InitProduct ==
    /\ \E k \in 2..MaxOperands :
       \E first \in ListsOf(Atoms, MaxOperandLen),
          rest \in [2..k -> DistinctLists(Atoms, MaxOperandLen) \cup {<<>>}],
          names \in {PyNone, NamesOf(k)} :
          LET indices == [j \in 1..k |->
                             SetInit(IF j = 1 THEN first ELSE rest[j], PyNone, PyNone, j)]
          IN  /\ ~SetInitRaises(CrossElements(indices), CrossNames(indices, names))
              /\ sets = Append(indices,
                               SetInit(CrossElements(indices), PyNone,
                                       CrossNames(indices, names), k + 1))
    /\ params = <<[index |-> Len(sets), value |-> PyArray(Ramp(SetLen(sets[Len(sets)])))]>>
    /\ ret = NoCall

NextProduct ==
    \/ \E p \in ProductPositions : Idle /\ CallSumByOf(1, p, TRUE)
    \/ \E p \in {PyInt(0), PyStr("o"), PyStr("d")} : Idle /\ CallSumByOf(1, p, FALSE)

SpecProduct == InitProduct /\ [][NextProduct]_vars

-----------------------------------------------------------------------------
(* Indexing: the program holds a Set whose labels may be ints, a Parameter  *)
(* (params[1]) and a Variable (params[2]) over it, each with or without a   *)
(* value, and reads their entries by key                                    *)

IntLabels == {PyInt(0), PyInt(1), PyInt(2), PyStr("a")}
IndexingKeys == IntLabels \cup {PyInt(-1), PyInt(3), PyStr("b")}

\* the values a Parameter or Variable over n elements has: none, or 10, 20, ...
ValuesOf(n) == {PyNone, PyArray([k \in 1..n |-> 10 * k])}

InitIndexing ==
    /\ sets \in {<<S>> : S \in SetsOver(IntLabels, MaxLen, {PyNone}, {PyNone}, 1)}
    /\ params \in {<<[index |-> 1, value |-> v], [index |-> 1, value |-> w]>> :
                      v \in ValuesOf(SetLen(sets[1])), w \in ValuesOf(SetLen(sets[1]))}
    /\ ret = NoCall

NextIndexing ==
    \/ \E pid \in 1..2, key \in IndexingKeys : Idle /\ CallGetItem(pid, key)
    \/ \E pid \in 1..2, key \in IndexingKeys : Idle /\ CallGetValue(pid, key)

SpecIndexing == InitIndexing /\ [][NextIndexing]_vars

-----------------------------------------------------------------------------
(* Broadcast and aggregation: the program holds S, U and T = Set.cross(S,   *)
(* U), and a Parameter v over S with a value; it expands v to T and then    *)
(* aggregates the value of the expanded Parameter over T.                   *)

\* the positions given to expand (a list), and those given to sum_by
BroadcastPositions == {<<PyInt(0)>>, <<PyInt(1)>>, <<PyStr("o")>>}
AggregatePositions == {PyInt(0), PyInt(1), PyStr("o"), PyList(<<PyInt(0)>>)}

\* the integer values of a Parameter over n elements
IntValues(n) == {PyArray(q) : q \in [1..n -> 1..3]}

InitBroadcast ==
    /\ \E q \in [1..2 -> ListsOf(Atoms, MaxOperandLen)], names \in {PyNone, TwoNames} :
          LET indices == [j \in 1..2 |-> SetInit(q[j], PyNone, PyNone, j)]
          IN  /\ ~SetInitRaises(CrossElements(indices), CrossNames(indices, names))
              /\ sets = Append(indices,
                               SetInit(CrossElements(indices), PyNone,
                                       CrossNames(indices, names), 3))
    /\ params \in {<<[index |-> 1, value |-> v]>> : v \in IntValues(SetLen(sets[1]))}
    /\ ret = NoCall

NextBroadcast ==
    \/ \E p \in BroadcastPositions : Idle /\ CallExpand(1, 3, p)
    \/ \E p \in AggregatePositions :
          /\ ret.op = "expand" /\ ret.exc = ""
          /\ CallSumBy(3, p, ret.val.value.f)

SpecBroadcast == InitBroadcast /\ [][NextBroadcast]_vars

-----------------------------------------------------------------------------
(* set_data again and again: the program holds a Set and two Parameters     *)
(* over it that were constructed with the same data (or without any), and   *)
(* gives the first one new data any number of times; the second one keeps   *)
(* the value of the construction.                                           *)

InitReplace ==
    /\ sets \in {<<S>> : S \in SetsOver(Atoms, MaxLen, {PyNone}, {PyNone}, 1)}
    /\ params \in {<<ParameterInit(1, data), ParameterInit(1, data)>> :
                      data \in {PyNone} \cup {PyDict(d) : d \in DictsFor(sets[1], Atoms)}}
    /\ ret = NoCall

NextReplace ==
    \E d \in DictsOver(Atoms) : CallSetData(1, d)

SpecReplace == InitReplace /\ [][NextReplace]_vars

-----------------------------------------------------------------------------
(* where over a product of a compound operand: the program holds A, whose   *)
(* elements may be tuples, B, and T = Set.cross(A, B, names=('o', 'd')),    *)
(* and filters an expression over T by one name                             *)

\* the filter values: a str, the tuple ('a', 'b') that is also an element of A, and
\* lists and sets of them
NestedAllowed ==
    {PyStr("a"),
     PyTuple(<<PyStr("a"), PyStr("b")>>),
     PyList(<<PyTuple(<<PyStr("a"), PyStr("b")>>)>>),
     PyList(<<PyStr("a"), PyStr("b")>>),
     PySet({PyStr("b")}),
     PySet({PyTuple(<<PyStr("a"), PyStr("b")>>), PyStr("b")})}

InitNested ==
    /\ \E q \in ListsOf(FewElems, MaxOperandLen) \X ListsOf(Atoms, MaxOperandLen) :
          LET indices == [j \in 1..2 |-> SetInit(q[j], PyNone, PyNone, j)]
          IN  /\ ~SetInitRaises(CrossElements(indices), TwoNames)
              /\ sets = Append(indices,
                               SetInit(CrossElements(indices), PyNone, TwoNames, 3))
    /\ params = <<>>
    /\ ret = NoCall

NextNested ==
    \E nm \in {PyStr("o"), PyStr("d")}, allowed \in NestedAllowed :
        Idle /\ CallWhere(Ramp(SetLen(sets[3])), PyNone, 3, <<<<nm, allowed>>>>)

SpecNested == InitNested /\ [][NextNested]_vars

-----------------------------------------------------------------------------
(* The claims *)

\* C1: for every Set S, also one built from a list that repeats an element, the
\* positions of the elements that iterating S produces are exactly 0 .. len(S) - 1.
C1_PositionsDense ==
    ret.op = "iter" =>
        {Position(sets[ret.set], ret.val[k]) : k \in 1..Len(ret.val)}
            = 0..(SetLen(sets[ret.set]) - 1)

\* the sizes of the operands of the last cross call
CrossSizes == [k \in 1..Len(ret.indices) |-> SetLen(sets[ret.indices[k]])]

RECURSIVE ProductOf(_)
ProductOf(q) == IF q = <<>> THEN 1 ELSE Head(q) * ProductOf(Tail(q))

\* the offset of the element picked by the offsets idx, the first operand slowest:
\* (..(idx[1] * size[2] + idx[2]) * size[3] + ..) + idx[k]
RECURSIVE LexOffset(_, _, _)
LexOffset(idx, sizes, k) ==
    IF k = 0 THEN 0 ELSE LexOffset(idx, sizes, k - 1) * sizes[k] + idx[k]

\* C2: cross(A, B) has size(A) * size(B) elements and element a * size(B) + b is
\* (A[a], B[b]); with k >= 2 operands the first varies slowest and the last fastest.
C2_CrossLexOrder ==
    (ret.op = "cross" /\ ret.exc = "") =>
        LET k == Len(ret.indices)
            sizes == CrossSizes
            out == ret.val.elements
        IN  /\ Len(out) = ProductOf(sizes)
            /\ \A idx \in [1..k -> 0..MaxOperandLen] :
                  (\A m \in 1..k : idx[m] < sizes[m]) =>
                      out[LexOffset(idx, sizes, k) + 1]
                          = PyTuple([m \in 1..k |->
                                        sets[ret.indices[m]].elements[idx[m] + 1]])

\* a product of three operands of which two differ in size was built
C2_Witness ==
    /\ ret.op = "cross" /\ ret.exc = ""
    /\ Len(ret.indices) = 3
    /\ CrossSizes[1] = 2 /\ CrossSizes[2] = 1 /\ CrossSizes[3] = 2
    /\ sets[ret.indices[1]].elements[1] # sets[ret.indices[1]].elements[2]

\* the retained sub-key of element j (from 1) of the index of the last sum_by call
SubKey(j) == GetKey(sets[ret.index].elements[j], ret.pos_indices)

\* C3: sum_by numbers the groups in first-occurrence order: group 0 is the sub-key of
\* the first element, group g + 1 the sub-key of the earliest element whose sub-key is
\* none of groups 0 .. g; there are as many rows as distinct sub-keys.
C3_FirstOccurrenceOrder ==
    (ret.op = "sum_by" /\ ret.exc = "") =>
        LET n == SetLen(sets[ret.index])
            gk == ret.group_keys
        IN  /\ Len(gk) = Cardinality({SubKey(j) : j \in 1..n})
            /\ Len(ret.matrix) = Len(gk)
            /\ gk[1] = SubKey(1)
            /\ \A g \in 1..(Len(gk) - 1) :
                  \E j \in 1..n :
                      /\ gk[g + 1] = SubKey(j)
                      /\ \A h \in 1..g : gk[h] # SubKey(j)
                      /\ \A m \in 1..(j - 1) : \E h \in 1..g : gk[h] = SubKey(m)

\* sum_by found two groups, and an element of the first group comes after the first
\* element of the second
C3_Witness ==
    /\ ret.op = "sum_by" /\ ret.exc = ""
    /\ Len(ret.group_keys) >= 2
    /\ \E j, m \in 1..SetLen(sets[ret.index]) :
          /\ m < j
          /\ SubKey(m) = ret.group_keys[2]
          /\ SubKey(j) = ret.group_keys[1]

\* C4: the matrix of sum_by has a row per group and a column per element, with 1
\* where the element's sub-key is the group's key and 0 elsewhere; so a row sums to the
\* size of its group and the matrix applied to x gives the sums of x over the groups.
C4_AggregationMatrix ==
    (ret.op = "sum_by" /\ ret.exc = "") =>
        LET n == SetLen(sets[ret.index])
            gk == ret.group_keys
            M == ret.matrix
        IN  /\ Len(M) = Len(gk)
            /\ \A g \in 1..Len(gk) :
                  /\ Len(M[g]) = n
                  /\ \A j \in 1..n : M[g][j] = IF SubKey(j) = gk[g] THEN 1 ELSE 0
                  /\ SumSeq(M[g]) = Cardinality({j \in 1..n : SubKey(j) = gk[g]})
                  /\ ret.val[g] = SumSeq([j \in 1..n |->
                                            IF SubKey(j) = gk[g] THEN ret.expr[j] ELSE 0])
            /\ Len(ret.val) = Len(gk)

\* sum_by built a matrix of two rows or more, one of them for a group of two elements
\* or more, and applied it to 1, 2, ..., n
C4_Witness ==
    /\ ret.op = "sum_by" /\ ret.exc = ""
    /\ Len(ret.group_keys) >= 2
    /\ \E g \in 1..Len(ret.group_keys) : SumSeq(ret.matrix[g]) >= 2
    /\ ret.expr = Ramp(SetLen(sets[ret.index]))
    /\ SetLen(sets[ret.index]) >= 3

\* the Parameter, the source Set, the target Set and the resolved positions of the
\* last expand call
ExpandParam == params[ret.param]
ExpandSource == sets[ExpandParam.index]
ExpandTarget == sets[ret.target]
ExpandPositions == ResolveAll(ExpandTarget, ret.positions)

\* subkey(t, pos): t[p] for one position, the tuple of the t[p] otherwise
ClaimSubKey(t, pos) ==
    IF Len(pos) = 1 THEN Subscript(t, pos[1])
    ELSE PyTuple([k \in 1..Len(pos) |-> Subscript(t, pos[k])])

\* C5: expand(v, T, pos) returns a Parameter indexed by T, of length size(T), whose
\* entry at the position of each target element t is v at S.position(subkey(t, pos)).
C5_ExpandLooksUp ==
    (ret.op = "expand" /\ ret.exc = "") =>
        /\ ret.val.index = ret.target
        /\ Len(ret.val.value.f) = SetLen(ExpandTarget)
        /\ \A k \in 1..SetLen(ExpandTarget) :
              LET t == ExpandTarget.elements[k]
              IN  ret.val.value.f[Position(ExpandTarget, t) + 1]
                      = ExpandParam.value.f[
                            Position(ExpandSource, ClaimSubKey(t, ExpandPositions)) + 1]

\* expand returned a Parameter over a target of three elements or more in which two
\* elements got different values
C5_Witness ==
    /\ ret.op = "expand" /\ ret.exc = ""
    /\ SetLen(ExpandTarget) >= 3
    /\ \E k, m \in 1..SetLen(ExpandTarget) : ret.val.value.f[k] # ret.val.value.f[m]

\* the target elements of the last expand call whose sub-key the source does not have
MissingKeys ==
    {k \in 1..SetLen(ExpandTarget) :
        PositionRaises(ExpandSource, ClaimSubKey(ExpandTarget.elements[k], ExpandPositions))}

\* expand got a target of tuples, positions that every target element has, and a
\* source Parameter that holds a value
ExpandWellFormed ==
    /\ ret.op = "expand"
    /\ ExpandTarget.is_compound
    /\ ~ResolveAllRaises(ExpandTarget, ret.positions)
    /\ KeysExc(ExpandTarget.elements, ExpandPositions) = ""
    /\ ~IsNone(ExpandParam.value)

\* C6: expand is strict: when the sub-key of some target element, wherever it stands
\* in the target, is not an element of the source, expand raises the KeyError of
\* position and returns no Parameter (no default, no zero fill).
C6_ExpandStrict ==
    (ExpandWellFormed /\ MissingKeys # {}) =>
        /\ ret.exc = "KeyError" /\ ret.which = "element"
        /\ ret.val = PyNone

\* expand raised for a target whose first element has its sub-key in the source and
\* whose second has not
C6_Witness ==
    /\ ExpandWellFormed
    /\ 1 \notin MissingKeys /\ 2 \in MissingKeys
    /\ ret.exc = "KeyError"

\* C7: where wants exactly one kind of condition: with a cond and position filters
\* both it raises the ValueError of "both", with neither the ValueError of "neither",
\* and builds no mask, whether an index is given or not.
C7_WhereOneCondition ==
    ret.op = "where" =>
        /\ (~IsNone(ret.cond) /\ ret.kwargs # <<>>) =>
              (ret.exc = "ValueError" /\ ret.which = "both" /\ ret.mask = PyNone)
        /\ (IsNone(ret.cond) /\ ret.kwargs = <<>>) =>
              (ret.exc = "ValueError" /\ ret.which = "neither" /\ ret.mask = PyNone)

\* where was given an array of the right length together with a filter that its
\* index resolves
C7_Witness ==
    /\ ret.op = "where" /\ ret.index = 1
    /\ IsArray(ret.cond) /\ Len(ret.cond.f) = SetLen(sets[1])
    /\ ret.kwargs # <<>>
    /\ sets[1].is_compound /\ ~ResolveRaises(sets[1], ret.kwargs[1][1])
    /\ ret.which = "both"

\* C8: in the named-filter path the mask entry of element e is 1.0 if for every
\* filter e's component at the position of the filter's name is in the filter's
\* allowed set, and 0.0 otherwise: a logical AND, whatever the order of the filters.
C8_FiltersAnd ==
    (ret.op = "where" /\ IsNone(ret.cond) /\ ret.kwargs # <<>> /\ ret.exc = "") =>
        LET S == sets[ret.index]
        IN  /\ Len(ret.mask.f) = SetLen(S)
            /\ \A k \in 1..SetLen(S) :
                  ret.mask.f[k] =
                      IF \A m \in 1..Len(ret.kwargs) :
                            Subscript(S.elements[k], ResolvePosition(S, ret.kwargs[m][1]))
                                \in AllowedSet(ret.kwargs[m][2])
                      THEN 1 ELSE 0

\* two filters were given, and an element that the first excludes passes the second
C8_Witness ==
    /\ ret.op = "where" /\ IsNone(ret.cond) /\ ret.exc = ""
    /\ Len(ret.kwargs) = 2
    /\ \E k \in 1..SetLen(sets[ret.index]) :
          LET e == sets[ret.index].elements[k]
          IN  /\ Subscript(e, ResolvePosition(sets[ret.index], ret.kwargs[1][1]))
                    \notin AllowedSet(ret.kwargs[1][2])
              /\ Subscript(e, ResolvePosition(sets[ret.index], ret.kwargs[2][1]))
                    \in AllowedSet(ret.kwargs[2][2])
    /\ \E k \in 1..SetLen(sets[ret.index]) : ret.mask.f[k] = 1

\* C9: in the predicate path with an index of N elements the mask has N entries,
\* entry i is 1.0 when the predicate holds for element i and 0.0 otherwise; without
\* an index the call raises the ValueError that asks for one.
C9_PredicateMask ==
    (ret.op = "where" /\ IsCallable(ret.cond) /\ ret.kwargs = <<>>) =>
        IF ret.index = 0
        THEN ret.exc = "ValueError" /\ ret.which = "index for callable"
                /\ ret.mask = PyNone
        ELSE LET S == sets[ret.index]
             IN  /\ ret.exc = ""
                 /\ Len(ret.mask.f) = SetLen(S)
                 /\ \A k \in 1..SetLen(S) :
                       /\ ret.mask.f[k] \in {0, 1}
                       /\ ret.mask.f[k] = 1 <=> Apply(ret.cond, S.elements[k])

\* a predicate was applied to an index of three elements or more, and it held for
\* one element and not for a later one
C9_Witness ==
    /\ ret.op = "where" /\ IsCallable(ret.cond) /\ ret.exc = ""
    /\ SetLen(sets[ret.index]) >= 3
    /\ \E k, m \in 1..SetLen(sets[ret.index]) :
          k < m /\ ret.mask.f[k] = 1 /\ ret.mask.f[m] = 0

\* the entries of an array given as cond, as numbers: True is 1.0 and False is 0.0
CondEntries == 
    IF IsBools(ret.cond) THEN [k \in 1..Len(ret.cond.b) |-> IF ret.cond.b[k] THEN 1 ELSE 0]
    ELSE ret.cond.f

\* C10: in the explicit-array path, an index whose size differs from the array's
\* length makes the call raise the ValueError of the shape; otherwise, and without an
\* index, the mask is the array entry for entry, so that all ones leave the
\* expression as it is and all zeros zero every entry.
C10_ArrayMask ==
    (ret.op = "where" /\ (IsArray(ret.cond) \/ IsBools(ret.cond)) /\ ret.kwargs = <<>>) =>
        IF ret.index # 0 /\ Len(CondEntries) # SetLen(sets[ret.index])
        THEN ret.exc = "ValueError" /\ ret.which = "shape" /\ ret.mask = PyNone
        ELSE /\ ret.which \in {"", "engine"}
             /\ ret.mask = PyArray(CondEntries)
             /\ (ret.index # 0 /\ ret.cond = PyArray(Ones(Len(ret.expr)))) =>
                    ret.val = PyArray(ret.expr)
             /\ (ret.index # 0 /\ ret.cond = PyArray(Zeros(Len(ret.expr)))) =>
                    ret.val = PyArray(Zeros(Len(ret.expr)))

\* an array longer than the index was refused
C10_Witness ==
    /\ ret.op = "where" /\ IsArray(ret.cond) /\ ret.index = 1
    /\ Len(ret.cond.f) > SetLen(sets[1])
    /\ SetLen(sets[1]) >= 2
    /\ ret.which = "shape"

\* operand k of the last cross call was constructed with a label: its name is not
\* the one Set.__init__ makes up for a Set without one
OperandLabelled(k) ==
    sets[ret.indices[k]].name # SetName(PyNone, ret.indices[k])

\* C11: cross without names=: when every operand was constructed with a label the
\* product's names are the operands' labels in operand order; when some operand was
\* constructed without a label the product has no names, so that no name resolves.
C11_CrossDefaultNames ==
    (ret.op = "cross" /\ IsNone(ret.names) /\ Len(ret.indices) >= 2) =>
        /\ ret.exc = ""
        /\ IF \A k \in 1..Len(ret.indices) : OperandLabelled(k)
           THEN ret.val.names
                    = PyTuple([k \in 1..Len(ret.indices) |-> sets[ret.indices[k]].name])
           ELSE /\ ret.val.names = PyNone
                /\ \A key \in {PyStr("o"), PyStr("d"), PyStr("Set_1"), PyStr("Set_2")} :
                      ResolveRaises(ret.val, key)

\* C12: cross does not flatten: with k operands every element of the product is a
\* k-tuple whose j-th component is one whole element of operand j, also when that
\* element is a tuple itself; so offset j - 1, and the j-th name when there is one,
\* pick an element of operand j.
C12_CrossNoFlatten ==
    (ret.op = "cross" /\ ret.exc = "") =>
        LET k == Len(ret.indices)
            P == ret.val
        IN  \A n \in 1..SetLen(P) :
                LET e == P.elements[n]
                IN  /\ IsTuple(e)
                    /\ Len(e.t) = k
                    /\ \A j \in 1..k :
                          LET operand == Range(sets[ret.indices[j]].elements)
                          IN  /\ e.t[j] \in operand
                              /\ Subscript(e, ResolvePosition(P, PyInt(j - 1))) = e.t[j]
                              /\ (Truthy(P.names) /\ j <= Len(P.names.t)) =>
                                    Subscript(e, ResolvePosition(P, P.names.t[j]))
                                        \in operand

\* the place in sets of the Set the last sum_by, where or expand call was given
UsedSet == IF ret.op = "expand" THEN ret.target ELSE ret.index

\* C13: the Set that cross returns for two operands or more is compound, also when an
\* operand is empty; so sum_by, where with position filters, and expand to it as the
\* target never refuse a product as not compound.
C13_CrossIsCompound ==
    /\ (ret.op = "cross" /\ ret.exc = "") => ret.val.is_compound
    /\ (ret.op \in {"sum_by", "where", "expand"} /\ Len(sets) = 3 /\ UsedSet = 3) =>
          ret.which # "not compound"

\* C14: _resolve_position returns an int key as it is and maps a name to its offset
\* in names; for a name it raises the KeyError of an unknown position whenever the
\* Set is not compound, or has no names, or the name is none of its names.
C14_ResolvePosition ==
    ret.op = "resolve" =>
        LET S == sets[ret.set]
        IN  IF IsInt(ret.key) THEN ret.exc = "" /\ ret.val = ret.key
            ELSE IF ~S.is_compound \/ IsNone(S.names) \/ ret.key \notin Range(S.names.t)
                 THEN ret.exc = "KeyError" /\ ret.val = PyNone
                 ELSE /\ ret.exc = ""
                      /\ S.names.t[ret.val.i + 1] = ret.key

\* the positions the last sum_by or expand call was given, as a list
GivenPositions ==
    IF ret.op = "sum_by" THEN NormalizePositions(ret.positions) ELSE ret.positions

\* arity: the length of the tuples of a compound Set
Arity(S) == Len(S.elements[1].t)

\* C15: sum_by and expand given an int position that is no offset in [0, arity) of
\* the compound Set, a negative one or one >= arity, raise an error and return
\* nothing; no such int is taken for another position.
C15_BadOffsetRejected ==
    (/\ ret.op \in {"sum_by", "expand"}
     /\ sets[UsedSet].is_compound
     /\ \E k \in 1..Len(GivenPositions) :
           /\ IsInt(GivenPositions[k])
           /\ (GivenPositions[k].i < 0 \/ GivenPositions[k].i >= Arity(sets[UsedSet])))
        => ret.exc # ""

\* C16: every operation that needs tuples refuses a Set that is not compound: sum_by
\* over it, where with position filters over it, and expand to it as the target each
\* raise the ValueError of a Set that is not compound and return nothing.
C16_ScalarSetRejected ==
    /\ (ret.op = "sum_by" /\ ~sets[ret.index].is_compound) =>
          (ret.exc = "ValueError" /\ ret.which = "not compound")
    /\ (ret.op = "where" /\ IsNone(ret.cond) /\ ret.kwargs # <<>>
            /\ ~sets[ret.index].is_compound) =>
          (ret.exc = "ValueError" /\ ret.which = "not compound"
              /\ ret.mask = PyNone /\ ret.val = PyNone)
    /\ (ret.op = "expand" /\ ~sets[ret.target].is_compound) =>
          (ret.exc = "ValueError" /\ ret.which = "not compound" /\ ret.val = PyNone)

\* expand refused a target of two scalars that are both elements of the source, for
\* a position that every one of them has
C16_Witness ==
    /\ ret.op = "expand" /\ ret.which = "not compound"
    /\ SetLen(sets[ret.target]) = 2
    /\ \A k \in 1..2 :
          /\ IsStr(sets[ret.target].elements[k])
          /\ SetContains(sets[params[ret.param].index], sets[ret.target].elements[k])
    /\ ret.positions = <<PyInt(0)>>

\* the elements of a list are tuples of one length, or there is none
SameArity(q) ==
    \A k \in 1..Len(q) : IsTuple(q[k]) /\ Len(q[k].t) = Len(q[1].t)

\* a list that holds a tuple next to a scalar or to a tuple of another length
MismatchedArity(q) ==
    /\ \E k \in 1..Len(q) : IsTuple(q[k])
    /\ ~SameArity(q)

\* C17: the elements of every compound Set that was constructed are tuples of one
\* and the same arity; Set(...) of tuples of different lengths, or of tuples next to
\* scalars, raises the error of the arity and constructs no Set.
C17_OneArity ==
    ret.op = "Set" =>
        /\ (ret.exc = "" /\ ret.val.is_compound) => SameArity(ret.val.elements)
        /\ MismatchedArity(ret.elements) => (ret.exc = "ValueError" /\ ret.val = PyNone)

\* C18: every Set that was constructed with names present, by Set(...) or by cross, is
\* compound and has as many names as its tuples have components.
C18_NamesMatchArity ==
    (ret.op \in {"Set", "cross"} /\ ret.exc = "" /\ ~IsNone(ret.val.names)) =>
        /\ ret.val.is_compound
        /\ Len(ret.val.names.t) = Arity(ret.val)

\* C19: a Set never changes once constructed: whatever call is made (cross, sum_by,
\* where, expand, set_data, get_value, indexing by label), whether it returns or
\* raises, every Set the program holds keeps its elements and their order, its
\* position map and its names; cross adds a new Set and leaves its operands alone.
C19_SetsImmutable ==
    [][/\ Len(sets') >= Len(sets)
       /\ \A k \in 1..Len(sets) : sets'[k] = sets[k]
       /\ (ret'.op = "cross" /\ ret'.exc = "") =>
             (Len(sets') = Len(sets) + 1 /\ sets'[Len(sets')] = ret'.val)]_vars

\* a product of the two Sets was kept, the Parameter was given new data, and then
\* sum_by returned for the product, which is still the product of its operands
C19_Witness ==
    /\ Len(sets) = 3
    /\ ret.op = "sum_by" /\ ret.index = 3 /\ ret.exc = ""
    /\ sets[3].elements = CrossElements(<<sets[1], sets[2]>>)
    /\ SetLen(sets[1]) = 2 /\ SetLen(sets[2]) = 2
    /\ params[1].value = PyArray(<<10, 5>>)

\* the keys of the dict the last set_data call was given
DataKeys == {ret.data.d[k][1] : k \in 1..Len(ret.data.d)}

\* C20: the value a Parameter over a Set S of N elements gets from a dict d is a
\* vector of N entries; the entry at position(e) is d[e] for every key e of d, and 0
\* for every element e of S that is no key of d.
C20_SetDataDense ==
    (ret.op = "set_data" /\ ret.exc = "") =>
        LET S == sets[params[ret.param].index]
            v == params[ret.param].value.f
        IN  /\ Len(v) = SetLen(S)
            /\ \A k \in 1..Len(ret.data.d) :
                  v[Position(S, ret.data.d[k][1]) + 1] = ret.data.d[k][2]
            /\ \A k \in 1..SetLen(S) :
                  S.elements[k] \notin DataKeys => v[Position(S, S.elements[k]) + 1] = 0

\* set_data returned for a Set of three elements and a dict of two keys, the first
\* of which stands later in the Set than the second
C20_Witness ==
    /\ ret.op = "set_data" /\ ret.exc = ""
    /\ SetLen(sets[1]) = 3
    /\ Len(ret.data.d) = 2
    /\ Position(sets[1], ret.data.d[1][1]) > Position(sets[1], ret.data.d[2][1])
    /\ \E k \in 1..3 : sets[1].elements[k] \notin DataKeys

\* the dict of the set_data call a step makes has a key that is no element of the
\* Parameter's Set
StepHasForeignKey ==
    \E k \in 1..Len(ret'.data.d) :
        ret'.data.d[k][1] \notin Range(sets[params[ret'.param].index].elements)

\* C21: no partial success: set_data given a dict with a key that is no element of
\* the Parameter's Set raises KeyError and leaves the Parameter's value as it was
\* before the call, none of the dict's entries written; an expand that raises leaves
\* the source Parameter's value as it was and returns no Parameter.
C21_NoPartialSuccess ==
    [][/\ (ret'.op = "set_data" /\ StepHasForeignKey) =>
             (ret'.exc = "KeyError" /\ params' = params)
       /\ (ret'.op = "set_data" /\ ret'.exc # "") => params' = params
       /\ (ret'.op = "expand" /\ ret'.exc # "") =>
             (params' = params /\ ret'.val = PyNone)]_vars

\* set_data raised for a dict whose first key is an element of the Set and whose
\* second is not, on a Parameter that still holds the value it was constructed with
C21_Witness ==
    /\ ret.op = "set_data" /\ ret.exc = "KeyError"
    /\ Len(ret.data.d) = 2
    /\ SetContains(sets[1], ret.data.d[1][1])
    /\ ~SetContains(sets[1], ret.data.d[2][1])
    /\ params[1].value = PyArray(<<10>>)

\* the rows of a table give every key one value
OneValuePerKey(df, cols) ==
    \A k, m \in 1..Len(df) :
        RowKey(df[k], cols) = RowKey(df[m], cols) => df[k].v = df[m].v

\* C22: parameter_from_dataframe without an index creates the Set from the table and
\* returns a Parameter that holds the table: for every row, the value at the key made
\* of the row's index column(s) is the row's value, for index_cols one column name
\* and for a list of several columns.
C22_ParameterHoldsTable ==
    (/\ ret.op = "parameter_from_dataframe"
     /\ OneValuePerKey(ret.df, NormalizeCols(ret.index_cols))) =>
        /\ ret.exc = ""
        /\ LET S == sets[ret.val.index]
           IN  \A k \in 1..Len(ret.df) :
                   LET key == RowKey(ret.df[k], NormalizeCols(ret.index_cols))
                   IN  /\ SetContains(S, key)
                       /\ ret.val.value.f[Position(S, key) + 1] = ret.df[k].v

\* the place, from 1, of the first occurrence of a value in a list that holds it
FirstPlace(q, v) == CHOOSE k \in 1..Len(q) : q[k] = v /\ \A m \in 1..(k - 1) : q[m] # v

\* C23: every Set the import functions build (set_from_series, set_from_dataframe,
\* set_from_index, and the Sets parameter_from_dataframe and parameter_from_series
\* create) has pairwise distinct elements, in the order of their first occurrence in
\* the table.
C23_ImportedSetsDistinct ==
    (/\ ret.op \in {"set_from_series", "set_from_dataframe", "set_from_index",
                    "parameter_from_dataframe", "parameter_from_series"}
     /\ ret.exc = "") =>
        LET el == ret.built.elements
        IN  /\ \A k, m \in 1..Len(el) : el[k] = el[m] => k = m
            /\ Range(el) = Range(ret.labels)
            /\ \A k, m \in 1..Len(el) :
                  k < m => FirstPlace(ret.labels, el[k]) < FirstPlace(ret.labels, el[m])

\* the components of an element in position order: those of a tuple, or the scalar
Components(elem) == IF IsTuple(elem) THEN elem.t ELSE <<elem>>

\* d[e] if e is a key of the items d, and 0 otherwise
ValueIn(d, e) ==
    IF \E k \in 1..Len(d) : d[k][1] = e
    THEN d[CHOOSE k \in 1..Len(d) : d[k][1] = e][2]
    ELSE 0

\* C24: export follows the order of the Set: for a Parameter over S whose value was
\* set from a dict d, parameter_to_dataframe returns size(S) rows, the i-th made of
\* the components of the i-th element of S in position order and then d[e], or 0 when
\* e is no key of d; variable_to_dataframe does the same with the solved value of a
\* Variable, and raises an error while the Variable has no value.
C24_ExportFollowsSet ==
    /\ (ret.op = "parameter_to_dataframe" /\ ~IsNone(params[ret.param].value)) =>
          LET S == sets[params[ret.param].index]
          IN  \A d \in DictsFor(S, FewElems) :
                  SetData(S, d) = params[ret.param].value =>
                      /\ ret.exc = ""
                      /\ Len(ret.val.rows) = SetLen(S)
                      /\ \A k \in 1..SetLen(S) :
                            ret.val.rows[k] =
                                Append(Components(S.elements[k]),
                                       PyFloat(ValueIn(d, S.elements[k])))
    /\ ret.op = "variable_to_dataframe" =>
          LET S == sets[params[ret.param].index]
              v == params[ret.param].value
          IN  IF IsNone(v) THEN ret.exc = "ValueError" /\ ret.val = PyNone
              ELSE /\ ret.exc = ""
                   /\ Len(ret.val.rows) = SetLen(S)
                   /\ \A k \in 1..SetLen(S) :
                         ret.val.rows[k] =
                             Append(Components(S.elements[k]),
                                    PyFloat(v.f[Position(S, S.elements[k]) + 1]))

\* C25: sum_by(expr, positions) called on a Variable without the index argument
\* aggregates over the Variable's own Set and returns one entry per group: with
\* positions that sum_by takes for that Set, the call raises nothing and returns
\* what sum_by(expr, positions, index=expr.index) returns.
C25_SumByOwnIndex ==
    (/\ ret.op = "sum_by"
     /\ ret.index = 0
     /\ SumByExc(sets[params[1].index], ret.positions)[1] = "") =>
        LET S == sets[params[1].index]
            pos_indices == ResolveAll(S, NormalizePositions(ret.positions))
        IN  /\ ret.exc = ""
            /\ "val" \in DOMAIN ret
            /\ ret.val = MatVec(BuildAggregationMatrix(S, pos_indices), params[1].value.f)
            /\ Len(ret.val) = Len(GroupKeys(S, pos_indices))

\* C26: X[k] of a Variable or Parameter X selects the entry at offset position(k)
\* whenever k is an element of the Set of X, ints included, and takes k for a raw
\* offset only when it is no element; with the elements [2, 0, 1], X[0] is the entry
\* at offset 1. X.get_value(k) reads the entry at the same offset position(k).
C26_LabelBeforeOffset ==
    LET X == params[ret.param]
        S == sets[X.index]
        n == SetLen(S)
    IN  /\ ret.op = "getitem" =>
              IF SetContains(S, ret.key)
              THEN ret.exc = "" /\ ret.val = PyInt(Position(S, ret.key))
              ELSE ret.exc = "" =>
                      /\ IsInt(ret.key)
                      /\ ret.val =
                            PyInt(IF ret.key.i < 0 THEN ret.key.i + n ELSE ret.key.i)
        /\ (ret.op = "get_value" /\ SetContains(S, ret.key) /\ ~IsNone(X.value)) =>
              /\ ret.exc = ""
              /\ ret.val = PyFloat(X.value.f[Position(S, ret.key) + 1])

\* X[0] with the elements [2, 0, 1]: the entry at offset 1, not the one at offset 0
C26_Witness ==
    /\ ret.op = "getitem"
    /\ sets[1].elements = <<PyInt(2), PyInt(0), PyInt(1)>>
    /\ ret.key = PyInt(0)
    /\ ret.param = 2
    /\ ret.val = PyInt(1)

\* the operands of the product of SpecProduct, the product, and the offsets given
Operands == SubSeq(sets, 1, Len(sets) - 1)
Product == sets[Len(sets)]
GivenOffsets == ResolveAll(Product, NormalizePositions(ret.positions))

\* sum_by was given the product and positions that are offsets of its operands
OffsetsOfOperands ==
    /\ ret.op = "sum_by"
    /\ ret.index = Len(sets)
    /\ ~ResolveAllRaises(Product, NormalizePositions(ret.positions))
    /\ \A j \in 1..Len(GivenOffsets) :
          GivenOffsets[j] >= 0 /\ GivenOffsets[j] < Len(Operands)

\* every operand has an element and lists no element twice
OperandsDistinct ==
    \A j \in 1..Len(Operands) :
        /\ Operands[j].elements # <<>>
        /\ \A k, m \in 1..Len(Operands[j].elements) :
              Operands[j].elements[k] = Operands[j].elements[m] => k = m

Increasing(q) == \A j \in 1..(Len(q) - 1) : q[j] < q[j + 1]

\* the elements of cross(I_p1, ..., I_pm), or of I_p1 itself when m = 1
RetainedElements(q) ==
    IF Len(q) = 1 THEN Operands[q[1] + 1].elements
    ELSE CrossElements([j \in 1..Len(q) |-> Operands[q[j] + 1]])

\* C27: for T = cross(I1, ..., Ik) of non-empty operands without repeated elements
\* and retained positions p1 < ... < pm, the groups of sum_by(T, [p1..pm]) are, in
\* order, the elements of cross(I_p1, ..., I_pm) (of I_p1 when m = 1), so the result
\* has the length of that Set and its entries stand at that Set's positions. With
\* positions that are not increasing the orders differ: they do whenever each
\* operand has two elements or more.
C27_GroupsInProductOrder ==
    (OffsetsOfOperands /\ OperandsDistinct) =>
        /\ Increasing(GivenOffsets) =>
              /\ ret.exc = ""
              /\ ret.group_keys = RetainedElements(GivenOffsets)
              /\ Len(ret.val) = Len(RetainedElements(GivenOffsets))
        /\ (/\ ~Increasing(GivenOffsets)
            /\ \A j \in 1..Len(Operands) : Len(Operands[j].elements) >= 2) =>
              /\ ret.exc = ""
              /\ ret.group_keys # RetainedElements(GivenOffsets)

\* positions [0, 2] of a product of three operands of two elements each
C27_Witness ==
    /\ OffsetsOfOperands /\ OperandsDistinct
    /\ Len(Operands) = 3
    /\ GivenOffsets = <<0, 2>>
    /\ ret.exc = ""
    /\ Len(ret.group_keys) = 4
    /\ Operands[1].elements # Operands[3].elements
    /\ ret.group_keys = CrossElements(<<Operands[1], Operands[3]>>)

\* S and U of SpecBroadcast list no element twice
NoRepeats(S) ==
    \A k, m \in 1..SetLen(S) : S.elements[k] = S.elements[m] => k = m

\* C28: broadcast, then aggregation, multiplies by the size of the group: for S and
\* U without repeated elements, T = cross(S, U) and an integer-valued Parameter v
\* over S, v.expand(T, [0]) returns a Parameter, and the sum_by(T, position 0) matrix
\* applied to its value is a vector of length size(S) whose entry at position(s) is
\* size(U) * v[s], for every s in S.
C28_BroadcastThenSum ==
    [][(NoRepeats(sets[1]) /\ NoRepeats(sets[2])) =>
          /\ (ret'.op = "expand" /\ ret'.positions = <<PyInt(0)>>) => ret'.exc = ""
          /\ (/\ ret.op = "expand" /\ ret.positions = <<PyInt(0)>> /\ ret.exc = ""
              /\ ret'.op = "sum_by" /\ ret'.positions \in {PyInt(0), PyList(<<PyInt(0)>>)}) =>
                 /\ ret'.exc = ""
                 /\ Len(ret'.val) = SetLen(sets[1])
                 /\ \A k \in 1..SetLen(sets[1]) :
                       ret'.val[Position(sets[1], sets[1].elements[k]) + 1] =
                           SetLen(sets[2]) * params[1].value.f[k]]_vars

\* C29: set_data replaces, it does not merge: whatever set_data calls came before,
\* after a set_data that succeeded the value of the Parameter is given by the dict
\* of that call alone: the entry at position(e) is d[e] for a key e of d and 0 for
\* every other element, also where an earlier dict had given e a value.
C29_SetDataReplaces ==
    (ret.op = "set_data" /\ ret.exc = "") =>
        LET S == sets[params[ret.param].index]
        IN  params[ret.param].value =
               PyArray([k \in 1..SetLen(S) |->
                           IF \E m \in 1..SetLen(S) :
                                 m > k /\ S.elements[m] = S.elements[k]
                           THEN 0
                           ELSE ValueIn(ret.data.d, S.elements[k])])

\* the Parameter was constructed with a value for a and for b, and the last dict has
\* b only: the entry of a, that the unchanged twin still shows, is 0
C29_Witness ==
    /\ ret.op = "set_data" /\ ret.exc = ""
    /\ sets[1].elements = <<PyStr("a"), PyStr("b")>>
    /\ params[2].value = PyArray(<<10, 20>>)
    /\ ret.data = PyDict(<< <<PyStr("b"), 10>> >>)
    /\ params[1].value = PyArray(<<0, 10>>)

\* C30: where with one named filter: a filter value that is a list, a tuple or a set
\* is the collection of the allowed values, any other value is the one allowed
\* value. So on a Set whose component at the filtered position is itself a tuple,
\* the filter value t = that tuple selects the elements whose component is a member
\* of t, and not those whose component equals t.
C30_TupleFilterIsCollection ==
    (ret.op = "where" /\ ret.index # 0 /\ Len(ret.kwargs) = 1 /\ ret.exc = "") =>
        LET S == sets[ret.index]
            pos == ResolvePosition(S, ret.kwargs[1][1])
            allowed == ret.kwargs[1][2]
            component(k) == Subscript(S.elements[k], pos)
            members == IF IsList(allowed) THEN {allowed.l[j] : j \in 1..Len(allowed.l)}
                       ELSE IF IsTuple(allowed)
                       THEN {allowed.t[j] : j \in 1..Len(allowed.t)}
                       ELSE IF IsSet(allowed) THEN allowed.st
                       ELSE {allowed}
        IN  /\ \A k \in 1..SetLen(S) :
                  ret.mask.f[k] = IF component(k) \in members THEN 1 ELSE 0
            /\ IsTuple(allowed) =>
                  \A k \in 1..SetLen(S) : component(k) = allowed => ret.mask.f[k] = 0

\* T = cross(A, B) with A = [('a', 'b')] and B = ['a', 'b']: o=('a', 'b') selects
\* no element, though the component of every element equals ('a', 'b')
C30_Witness ==
    /\ ret.op = "where" /\ ret.exc = ""
    /\ ret.kwargs = << <<PyStr("o"), PyTuple(<<PyStr("a"), PyStr("b")>>)>> >>
    /\ sets[1].elements = <<PyTuple(<<PyStr("a"), PyStr("b")>>)>>
    /\ sets[2].elements = <<PyStr("a"), PyStr("b")>>
    /\ ret.mask = PyArray(<<0, 0>>)

====
